---------------------------- MODULE Spec2Model ----------------------------
(***************************************************************************)
(* A model of the relevance and linking engine of markmarkmind:           *)
(* ConceptLinker (src/src/shared/concept-linker.ts), the concept linking  *)
(* part of AIService (src/src/shared/page-analyzer.ts) and the highlight  *)
(* operations of StorageManager (src/src/shared/storage.ts).              *)
(*                                                                         *)
(* Numbers.  Similarities are fixed point, in thousandths (0.3 is 300).   *)
(* Timestamps and durations are in minutes (the source counts             *)
(* milliseconds).  A value that may be NaN is a record [nan, val].        *)
(* Text is a string; it is lower-cased, split and stemmed character by    *)
(* character, as the source does.                                         *)
(***************************************************************************)
EXTENDS Integers, Sequences, FiniteSets, TLC

VARIABLES
    store,            \* the highlights object store: id -> Highlight
    now,              \* Date.now(), in minutes
    vocabularyIndex,  \* ConceptLinker.vocabularyIndex: term -> set of ids
    conceptGraph,     \* ConceptLinker.conceptGraph: name -> set of names
    lastIndexUpdate,  \* ConceptLinker.lastIndexUpdate
    provider,         \* AIService.provider
    apiKey,           \* AIService.apiKey
    query,            \* the findRelatedHighlights calls, one per slot
    link,             \* the linkConcepts call (AIService) and its fetch
    edits,            \* how many times other actors changed the store
    ticks,            \* how many times the clock was advanced
    batch,            \* the batchBuildLinks call
    indexedSnapshot,  \* for the record: what the last completed rebuild read
    cache,            \* AIService.cache: key -> cached result
    explain,          \* the explainText call (AIService) and its fetch
    search            \* the searchHighlights call (StorageManager)

vars == <<store, now, vocabularyIndex, conceptGraph, lastIndexUpdate,
          provider, apiKey, query, link, edits, ticks, batch,
          indexedSnapshot, cache, explain, search>>

----------------------------------------------------------------------------
(* Bounds of the model *)

MaxEdits == 1
MaxTicks == 1
\* rejected puts in one behaviour
MaxFaults == 1

----------------------------------------------------------------------------
(* Program constants *)

\* 5 * 60 * 1000 ms, in minutes
INDEX_REFRESH_INTERVAL == 5
\* 30 * 24 * 60 * 60 * 1000 ms, in minutes
ThirtyDays == 43200
\* findRelatedHighlights: maxResults = 5
DefaultMaxResults == 5
\* findRelatedHighlights: minSimilarity = 0.3
DefaultMinSimilarity == 300
\* linkConcepts: maxLinks || 5
DefaultMaxLinks == 5

----------------------------------------------------------------------------
(* Arithmetic *)

Min(a, b) == IF a <= b THEN a ELSE b

RECURSIVE SqrtSearch(_, _, _)
SqrtSearch(n, lo, hi) ==
    IF lo >= hi THEN lo
    ELSE LET mid == (lo + hi + 1) \div 2
         IN  IF mid * mid <= n THEN SqrtSearch(n, mid, hi)
                               ELSE SqrtSearch(n, lo, mid - 1)

\* Math.sqrt, rounded down to an integer
ISqrt(n) == SqrtSearch(n, 0, Min(n, 46340))

\* Math.sqrt(n) in thousandths
Sqrt1000(n) == ISqrt(n * 1000000)

Num(v) == [nan |-> FALSE, val |-> v]
NaN == [nan |-> TRUE, val |-> 0]

\* a / b of two non-negative numbers, in thousandths; 0 / 0 is NaN.
\* den1000 is the denominator in thousandths.
Quotient(num, den1000) ==
    IF den1000 = 0
    THEN (IF num = 0 THEN NaN ELSE Num(1000000))
    ELSE Num((num * 1000000) \div den1000)

RECURSIVE SumSeq(_)
SumSeq(s) == IF s = <<>> THEN 0 ELSE Head(s) + SumSeq(Tail(s))

RECURSIVE SetToSeq(_)
SetToSeq(S) ==
    IF S = {} THEN <<>>
    ELSE LET x == CHOOSE y \in S : TRUE IN <<x>> \o SetToSeq(S \ {x})

Range(s) == {s[i] : i \in 1..Len(s)}

\* Array.prototype.sort with (a, b) => b.key - a.key: stable, descending.
\* Sorts a sequence of records that have a field key.
\* A sort that is not stable: an element goes ahead of its equals
RECURSIVE InsertAheadOfEquals(_, _)
InsertAheadOfEquals(sorted, x) ==
    IF sorted = <<>> THEN <<x>>
    ELSE IF Head(sorted).key > x.key
         THEN <<Head(sorted)>> \o InsertAheadOfEquals(Tail(sorted), x)
         ELSE <<x>> \o sorted

RECURSIVE InsertByKey(_, _)
InsertByKey(sorted, x) ==
    IF sorted = <<>> THEN <<x>>
    ELSE IF Head(sorted).key >= x.key
         THEN <<Head(sorted)>> \o InsertByKey(Tail(sorted), x)
         ELSE <<x>> \o sorted

RECURSIVE SortFrom(_, _, _)
SortFrom(s, i, acc) ==
    IF i > Len(s) THEN acc ELSE SortFrom(s, i + 1, InsertByKey(acc, s[i]))

SortDescByKey(s) == SortFrom(s, 1, <<>>)

\* x || d for a number x
OrDefault(x, d) == IF x = 0 THEN d ELSE x

\* Array.prototype.slice(0, n) for n >= 0
Slice0(s, n) == SubSeq(s, 1, Min(n, Len(s)))

----------------------------------------------------------------------------
(* Strings *)

UpperCase == "ABCDEFGHIJKLMNOPQRSTUVWXYZ"
LowerCase == "abcdefghijklmnopqrstuvwxyz"
Digits == "0123456789"

CharAt(s, i) == SubSeq(s, i, i)
CharIn(c, s) == \E i \in 1..Len(s) : CharAt(s, i) = c

UpperToLower ==
    [c \in {CharAt(UpperCase, i) : i \in 1..Len(UpperCase)} |->
        CharAt(LowerCase, CHOOSE i \in 1..Len(UpperCase) : CharAt(UpperCase, i) = c)]

WordChars ==
    {CharAt(LowerCase, i) : i \in 1..Len(LowerCase)} \cup
    {CharAt(UpperCase, i) : i \in 1..Len(UpperCase)} \cup
    {CharAt(Digits, i) : i \in 1..Len(Digits)} \cup {"_"}

LowerChar(c) == IF c \in DOMAIN UpperToLower THEN UpperToLower[c] ELSE c

\* String.prototype.toLowerCase
RECURSIVE ToLowerCase(_)
ToLowerCase(s) ==
    IF Len(s) = 0 THEN ""
    ELSE LowerChar(CharAt(s, 1)) \o ToLowerCase(SubSeq(s, 2, Len(s)))

\* \w of a regular expression
IsWordChar(c) == c \in WordChars
\* \s of a regular expression (the texts of the model hold blanks only)
IsSpace(c) == c = " "

\* s.replace(/[^\w\s]/g, ' ')
RECURSIVE StripPunctuation(_)
StripPunctuation(s) ==
    IF Len(s) = 0 THEN ""
    ELSE LET c == CharAt(s, 1)
         IN  (IF IsWordChar(c) \/ IsSpace(c) THEN c ELSE " ")
                 \o StripPunctuation(SubSeq(s, 2, Len(s)))

\* s.split(/\s+/): the pieces between runs of white space.  A piece is empty
\* only at the start or the end of s.
RECURSIVE SplitFrom(_, _, _, _)
SplitFrom(s, i, cur, inGap) ==
    IF i > Len(s) THEN <<cur>>
    ELSE LET c == CharAt(s, i)
         IN  IF IsSpace(c)
             THEN (IF inGap THEN SplitFrom(s, i + 1, cur, TRUE)
                            ELSE <<cur>> \o SplitFrom(s, i + 1, "", TRUE))
             ELSE SplitFrom(s, i + 1, cur \o c, FALSE)

SplitWhitespace(s) == SplitFrom(s, 1, "", FALSE)

EndsWith(w, suffix) ==
    /\ Len(w) >= Len(suffix)
    /\ SubSeq(w, Len(w) - Len(suffix) + 1, Len(w)) = suffix

\* /^\d+$/.test(w)
IsNumeric(w) == Len(w) > 0 /\ \A i \in 1..Len(w) : CharIn(CharAt(w, i), Digits)

----------------------------------------------------------------------------
(* The texts of the model's highlights *)

TextModels == "Machine learning models require large datasets for training."
TextDatasets == "Large datasets are essential for training machine learning models"
TextWeather == "The weather today is sunny, nothing technical here at all."

TextShort == "Sunny today, nothing technical."

Texts == {TextModels, TextDatasets, TextWeather, TextShort}

----------------------------------------------------------------------------
(* ConceptLinker: words *)

stopWords ==
    {"the", "a", "an", "and", "or", "but", "in", "on", "at", "to", "for",
     "of", "with", "by", "from", "as", "is", "was", "are", "were", "been",
     "be", "have", "has", "had", "do", "does", "did", "will", "would",
     "could", "should", "may", "might", "must", "can", "this", "that",
     "these", "those", "i", "you", "he", "she", "it", "we", "they",
     "what", "which", "who", "when", "where", "why", "how"}

suffixes == <<"ing", "ed", "es", "s", "ly", "er", "est", "tion", "ation">>

RECURSIVE StemFrom(_, _)
StemFrom(word, k) ==
    IF k > Len(suffixes) THEN word
    ELSE IF EndsWith(word, suffixes[k]) /\ Len(word) > Len(suffixes[k]) + 2
         THEN SubSeq(word, 1, Len(word) - Len(suffixes[k]))
         ELSE StemFrom(word, k + 1)

simpleStem(word) == StemFrom(word, 1)

KeepWord(word) == Len(word) > 2 /\ word \notin stopWords /\ ~IsNumeric(word)

extractWords(text) ==
    LET pieces == SplitWhitespace(StripPunctuation(ToLowerCase(text)))
        kept == SelectSeq(pieces, KeepWord)
    IN  [i \in 1..Len(kept) |-> simpleStem(kept[i])]

\* extractWords, worked out once for each text of the model
WordsTable == {[text |-> t, words |-> extractWords(t)] : t \in Texts}

WordsOf(text) ==
    IF text \in Texts
    THEN (CHOOSE e \in WordsTable : e.text = text).words
    ELSE extractWords(text)

----------------------------------------------------------------------------
(* StorageManager: the highlights store *)

\* IndexedDB returns the records in key order; the ids of the model are
\* numbers and their order stands for the key order.
RECURSIVE IdsInOrder(_)
IdsInOrder(S) ==
    IF S = {} THEN <<>>
    ELSE LET m == CHOOSE x \in S : \A y \in S : x <= y
         IN  <<m>> \o IdsInOrder(S \ {m})

getAllHighlights(st) ==
    LET ids == IdsInOrder(DOMAIN st)
        keyed == [i \in 1..Len(ids) |-> [key |-> st[ids[i]].createdAt, h |-> st[ids[i]]]]
        sorted == SortDescByKey(keyed)
    IN  [i \in 1..Len(sorted) |-> sorted[i].h]

\* getHighlight: request.result || null, as a sequence of at most one record
getHighlight(st, id) == IF id \in DOMAIN st THEN <<st[id]>> ELSE <<>>

----------------------------------------------------------------------------
(* ConceptLinker: the indexes *)

ConceptNames(h) == {h.concepts[i].name : i \in 1..Len(h.concepts)}
LowerConceptNames(h) == {ToLowerCase(h.concepts[i].name) : i \in 1..Len(h.concepts)}

BuildVocabularyIndex(highlights) ==
    LET hs == Range(highlights)
        words == UNION {Range(WordsOf(h.text)) : h \in hs}
    IN  [w \in words |-> {h.id : h \in {g \in hs : w \in Range(WordsOf(g.text))}}]

BuildConceptGraph(highlights) ==
    LET hs == Range(highlights)
        names == UNION {ConceptNames(h) : h \in hs}
    IN  [n \in names |->
            UNION {ConceptNames(h) \ {n} : h \in {g \in hs : n \in ConceptNames(g)}}]

\* Indexes that are rebuilt once and never again
StaleWhenNeverBuilt(t, last) == last = 0

IndexIsStale(t, last) == t - last > INDEX_REFRESH_INTERVAL

----------------------------------------------------------------------------
(* ConceptLinker: concept-based similarity *)

Categories ==
    <<"person", "organization", "technology", "theory", "method",
      "location", "event", "unknown">>

\* categoryWeights, in tenths
categoryWeights ==
    [technology |-> 10, theory |-> 9, method |-> 8, person |-> 6,
     organization |-> 5, location |-> 3, event |-> 7, unknown |-> 4]

groupConceptsByCategory(concepts) ==
    [c \in {concepts[i].category : i \in 1..Len(concepts)} |->
        {ToLowerCase(concepts[i].name) :
            i \in {j \in 1..Len(concepts) : concepts[j].category = c}}]

GroupOf(byCategory, c) == IF c \in DOMAIN byCategory THEN byCategory[c] ELSE {}

setIntersection(setA, setB) == setA \cap setB

\* overlap.size / Math.sqrt(a.size * b.size)
OverlapSimilarity(setA, setB) ==
    Quotient(Cardinality(setIntersection(setA, setB)),
             Sqrt1000(Cardinality(setA) * Cardinality(setB)))

HasEdge(graph, from, to) == from \in DOMAIN graph /\ to \in graph[from]

\* the score of one (source concept, target concept) pair, in halves
PathScore(graph, s, t) ==
    IF HasEdge(graph, s, t) THEN 2
    ELSE IF s \in DOMAIN graph /\ \E m \in graph[s] : HasEdge(graph, m, t) THEN 1
    ELSE 0

calculateGraphSimilarity(graph, sourceConcepts, targetConcepts) ==
    LET pairs == sourceConcepts \X targetConcepts
        totalPaths == Cardinality(pairs)
        scores == SetToSeq(pairs)
        connections2 == SumSeq([i \in 1..Len(scores) |->
                                  PathScore(graph, scores[i][1], scores[i][2])])
    IN  IF totalPaths > 0 THEN (connections2 * 500) \div totalPaths ELSE 0

calculateCategorySimilarity(sourceByCategory, targetByCategory) ==
    LET used == SelectSeq(Categories,
                    LAMBDA c : ~(GroupOf(sourceByCategory, c) = {} /\
                                 GroupOf(targetByCategory, c) = {}))
        sims == [i \in 1..Len(used) |->
                    OverlapSimilarity(GroupOf(sourceByCategory, used[i]),
                                      GroupOf(targetByCategory, used[i]))]
        anyNaN == \E i \in 1..Len(used) : sims[i].nan
        weighted == SumSeq([i \in 1..Len(used) |-> sims[i].val * categoryWeights[used[i]]])
        totalWeight == SumSeq([i \in 1..Len(used) |-> categoryWeights[used[i]]])
    IN  IF totalWeight > 0
        THEN (IF anyNaN THEN NaN ELSE Num(weighted \div totalWeight))
        ELSE Num(0)

\* 0.5 direct + 0.3 graph + 0.2 category
CombineSimilarity(direct, graphSim, category) ==
    IF direct.nan \/ category.nan THEN NaN
    ELSE Num((direct.val * 5 + graphSim * 3 + category.val * 2) \div 10)

ConceptSimilarity(graph, source, candidate) ==
    CombineSimilarity(
        OverlapSimilarity(LowerConceptNames(source), LowerConceptNames(candidate)),
        calculateGraphSimilarity(graph, LowerConceptNames(source), LowerConceptNames(candidate)),
        calculateCategorySimilarity(groupConceptsByCategory(source.concepts),
                                    groupConceptsByCategory(candidate.concepts)))

\* x >= minSimilarity, false for NaN
AtLeast(x, minSimilarity) == ~x.nan /\ x.val >= minSimilarity

\* Candidates without the excludeIds option
CandidatesButSource(source, allHighlights, excludeIds) ==
    SelectSeq(allHighlights, LAMBDA h : h.id # source.id)

Candidates(source, allHighlights, excludeIds) ==
    SelectSeq(allHighlights, LAMBDA h : h.id # source.id /\ h.id \notin Range(excludeIds))

RECURSIVE Distinct(_)
Distinct(s) ==
    IF s = <<>> THEN <<>>
    ELSE <<Head(s)>> \o Distinct(SelectSeq(Tail(s), LAMBDA x : x # Head(s)))

\* Array.from(directOverlap): the shared names in the source's order
SharedConcepts(source, candidate) ==
    SelectSeq(Distinct([i \in 1..Len(source.concepts) |-> ToLowerCase(source.concepts[i].name)]),
              LAMBDA n : n \in LowerConceptNames(candidate))

findRelatedByConcepts(graph, source, allHighlights, minSimilarity, excludeIds) ==
    LET cands == SelectSeq(Candidates(source, allHighlights, excludeIds),
                           LAMBDA h : Len(h.concepts) # 0)
        scored == [i \in 1..Len(cands) |->
                      [h |-> cands[i], total |-> ConceptSimilarity(graph, source, cands[i])]]
        kept == SelectSeq(scored, LAMBDA c : AtLeast(c.total, minSimilarity))
    IN  [i \in 1..Len(kept) |->
            [highlight |-> kept[i].h,
             similarity |-> kept[i].total.val,
             matchType |-> "concept_based",
             sharedConcepts |-> SharedConcepts(source, kept[i].h)]]

----------------------------------------------------------------------------
(* ConceptLinker: TF-IDF and cosine similarity *)

\* Math.log(n) for n = 1..8, in thousandths
LnThousandths == <<0, 693, 1099, 1386, 1609, 1792, 1946, 2079>>

\* Math.log(totalDocuments / df), in tenths
LogRatio(totalDocuments, df) ==
    (LnThousandths[totalDocuments] - LnThousandths[df] + 50) \div 100

calculateIDF(highlights) ==
    LET totalDocuments == Len(highlights)
        words == UNION {Range(WordsOf(highlights[i].text)) : i \in 1..Len(highlights)}
        df(w) == Cardinality({i \in 1..Len(highlights) :
                                 w \in Range(WordsOf(highlights[i].text))})
    IN  [w \in words |-> LogRatio(totalDocuments, df(w))]

\* A vector is the terms in the order they were inserted, and their weights.
calculateTFIDFVector(text, idfValues) ==
    LET words == WordsOf(text)
        tf(w) == Cardinality({i \in 1..Len(words) : words[i] = w})
    IN  [terms |-> Distinct(words),
         w |-> [t \in Range(words) |->
                   tf(t) * (IF t \in DOMAIN idfValues THEN idfValues[t] ELSE 0)]]

WeightIn(vector, term) == IF term \in DOMAIN vector.w THEN vector.w[term] ELSE 0

SquaredMagnitude(vector) ==
    SumSeq([i \in 1..Len(vector.terms) |-> vector.w[vector.terms[i]] * vector.w[vector.terms[i]]])

\* The projection of vectorB on vectorA, as a share of vectorA's length
projectionOnA(vectorA, vectorB) ==
    LET dotProduct == SumSeq([i \in 1..Len(vectorA.terms) |->
                                vectorA.w[vectorA.terms[i]] * WeightIn(vectorB, vectorA.terms[i])])
        magnitudeA2 == SquaredMagnitude(vectorA)
    IN  IF magnitudeA2 = 0 THEN 0 ELSE (dotProduct * 1000) \div magnitudeA2

cosineSimilarity(vectorA, vectorB) ==
    LET dotProduct == SumSeq([i \in 1..Len(vectorA.terms) |->
                                vectorA.w[vectorA.terms[i]] * WeightIn(vectorB, vectorA.terms[i])])
        magnitudeA2 == SquaredMagnitude(vectorA)
        magnitudeB2 == SquaredMagnitude(vectorB)
    IN  IF magnitudeA2 = 0 \/ magnitudeB2 = 0 THEN 0
        ELSE (dotProduct * 1000) \div ISqrt(magnitudeA2 * magnitudeB2)

getTopSharedTerms(vectorA, vectorB, count) ==
    LET shared == SelectSeq(vectorA.terms, LAMBDA t : WeightIn(vectorB, t) # 0)
        scored == [i \in 1..Len(shared) |->
                      [key |-> Min(vectorA.w[shared[i]], WeightIn(vectorB, shared[i])),
                       term |-> shared[i]]]
        top == Slice0(SortDescByKey(scored), count)
    IN  [i \in 1..Len(top) |-> top[i].term]

findRelatedByTFIDF(source, allHighlights, minSimilarity, excludeIds) ==
    LET idfValues == calculateIDF(allHighlights)
        sourceTFIDF == calculateTFIDFVector(source.text, idfValues)
        cands == Candidates(source, allHighlights, excludeIds)
        scored == [i \in 1..Len(cands) |->
                      [h |-> cands[i],
                       similarity |-> cosineSimilarity(sourceTFIDF,
                                         calculateTFIDFVector(cands[i].text, idfValues))]]
        kept == SelectSeq(scored, LAMBDA c : c.similarity >= minSimilarity)
    IN  [i \in 1..Len(kept) |->
            [highlight |-> kept[i].h,
             similarity |-> kept[i].similarity,
             matchType |-> "text_similarity",
             sharedConcepts |-> getTopSharedTerms(sourceTFIDF,
                                    calculateTFIDFVector(kept[i].h.text, idfValues), 3)]]

----------------------------------------------------------------------------
(* ConceptLinker: temporal decay, ranking *)

\* The clock of the model is always later than thirty days after the epoch.
TemporalBoost(t, createdAt) ==
    LET thirtyDaysAgo == t - ThirtyDays
        age == t - createdAt
    IN  IF age < thirtyDaysAgo
        THEN ((thirtyDaysAgo - age) * 100) \div thirtyDaysAgo
        ELSE 0

\* The boost added without Math.min(1, ...)
applyDecayUnclamped(related, t) ==
    [i \in 1..Len(related) |->
        [related[i] EXCEPT !.similarity =
            related[i].similarity + TemporalBoost(t, related[i].highlight.createdAt)]]

applyTemporalDecay(related, t) ==
    [i \in 1..Len(related) |->
        [related[i] EXCEPT !.similarity =
            Min(1000, related[i].similarity + TemporalBoost(t, related[i].highlight.createdAt))]]

\* .sort((a, b) => b.similarity - a.similarity).slice(0, maxResults)
RankAndTruncate(related, maxResults) ==
    LET keyed == [i \in 1..Len(related) |-> [key |-> related[i].similarity, r |-> related[i]]]
        top == Slice0(SortDescByKey(keyed), maxResults)
    IN  [i \in 1..Len(top) |-> top[i].r]

----------------------------------------------------------------------------
(* AIService: availability and local concept linking *)

isAvailable(prov, key) ==
    IF prov = "none" THEN FALSE
    ELSE IF prov = "local" THEN TRUE
    ELSE Len(key) > 0

LowerSet(names) == {ToLowerCase(names[i]) : i \in 1..Len(names)}

\* text.toLowerCase().split(/\s+/).filter(w => w.length > 4), as a set
LongWords(text) ==
    Range(SelectSeq(SplitWhitespace(ToLowerCase(text)), LAMBDA w : Len(w) > 4))

\* LongWords, worked out once for each text of the model
LongWordsTable == {[text |-> t, words |-> LongWords(t)] : t \in Texts}

LongWordsOf(text) ==
    IF text \in Texts
    THEN (CHOOSE e \in LongWordsTable : e.text = text).words
    ELSE LongWords(text)

\* in thousandths
jaccardSimilarity(setA, setB) ==
    IF setA = {} /\ setB = {} THEN 0
    ELSE (Cardinality(setA \cap setB) * 1000) \div Cardinality(setA \cup setB)

\* 0.4 concepts + 0.3 topics + 0.15 tags + 0.15 words
LocalSimilarity(source, h) ==
    (  jaccardSimilarity(LowerConceptNames(source), LowerConceptNames(h)) * 40
     + jaccardSimilarity(LowerSet(source.topics), LowerSet(h.topics)) * 30
     + jaccardSimilarity(LowerSet(source.tags), LowerSet(h.tags)) * 15
     + jaccardSimilarity(LongWordsOf(source.text), LongWordsOf(h.text)) * 15) \div 100

linkConceptsLocally(source, allHighlights, maxLinks, minSimilarity) ==
    LET others == SelectSeq(allHighlights, LAMBDA h : h.id # source.id)
        kept == SelectSeq(others, LAMBDA h : LocalSimilarity(source, h) >= minSimilarity)
        keyed == [i \in 1..Len(kept) |-> [key |-> LocalSimilarity(source, kept[i]),
                                          id |-> kept[i].id]]
        top == Slice0(SortDescByKey(keyed), maxLinks)
    IN  [i \in 1..Len(top) |-> top[i].id]

\* A linkConcepts that does not look the source up and answers with the
\* highlights it was given
linkConceptsWithoutLookup(prov, key, sourceHighlightId, allHighlights, maxLinks) ==
    IF allHighlights = <<>> THEN [fetch |-> FALSE, ids |-> <<>>]
    ELSE [fetch |-> FALSE,
          ids |-> Slice0([i \in 1..Len(allHighlights) |-> allHighlights[i].id],
                         maxLinks)]

\* What linkConcepts does before its first suspension: the ids it returns at
\* once, or the fetch it starts (callAI of linkConceptsWithAI).
linkConcepts(prov, key, sourceHighlightId, allHighlights, maxLinks) ==
    LET found == SelectSeq(allHighlights, LAMBDA h : h.id = sourceHighlightId)
    IN  IF found = <<>> THEN [fetch |-> FALSE, ids |-> <<>>]
        ELSE IF isAvailable(prov, key) /\ prov # "local"
        THEN [fetch |-> TRUE, ids |-> <<>>]
        ELSE [fetch |-> FALSE,
              ids |-> linkConceptsLocally(found[1], allHighlights,
                                          OrDefault(maxLinks, DefaultMaxLinks),
                                          DefaultMinSimilarity)]

\* The responses of the provider's endpoint, as callAI and JSON.parse see them
Responses ==
    {[kind |-> "array", ids |-> ids] : ids \in {<<>>, <<2>>, <<3, 2, 4>>, <<9>>}}
    \cup {[kind |-> k, ids |-> <<>>] :
            k \in {"not_array", "not_json", "http_error", "network_error"}}

\* A linkConceptsWithAI whose catch block returns []
EmptyOnAnyFailure(source, allHighlights, maxLinks, response) ==
    IF response.kind = "array" THEN Slice0(response.ids, maxLinks) ELSE <<>>

\* linkConceptsWithAI, from the result of callAI: Array.isArray(linkedIds) ?
\* linkedIds.slice(0, maxLinks) : [], and the catch block
linkConceptsWithAI(source, allHighlights, maxLinks, response) ==
    CASE response.kind = "array" -> Slice0(response.ids, maxLinks)
      [] response.kind = "not_array" -> <<>>
      [] OTHER -> linkConceptsLocally(source, allHighlights, maxLinks,
                                      DefaultMinSimilarity)

\* findRelatedWithAI: relatedIds.map(...).filter(r => r.highlight)
MapAIResults(relatedIds, candidateHighlights) ==
    LET mapped == [i \in 1..Len(relatedIds) |->
                      [hs |-> SelectSeq(candidateHighlights, LAMBDA h : h.id = relatedIds[i]),
                       similarity |-> 900 - (i - 1) * 100]]
        kept == SelectSeq(mapped, LAMBDA m : m.hs # <<>>)
    IN  [i \in 1..Len(kept) |->
            [highlight |-> kept[i].hs[1],
             similarity |-> kept[i].similarity,
             matchType |-> "ai_semantic",
             sharedConcepts |-> <<>>]]

----------------------------------------------------------------------------
(* The corpora the model starts from *)

StartTime == 100 * 1000

Concept(name, category) == [name |-> name, category |-> category]

Highlight(id, text, concepts, topics, tags, createdAt) ==
    [id |-> id, text |-> text, concepts |-> concepts, topics |-> topics,
     tags |-> tags, createdAt |-> createdAt, updatedAt |-> createdAt,
     relatedHighlightIds |-> <<>>,
     note |-> "", pageTitle |-> "", collectionIds |-> <<>>, color |-> "yellow",
     referenceCount |-> 0]


PythonML == <<Concept("Python", "technology"), Concept("ML", "theory")>>
pythonml == <<Concept("python", "technology"), Concept("ml", "theory")>>
PythonAI == <<Concept("Python", "technology"), Concept("AI", "theory")>>
PythonGuido == <<Concept("python", "technology"), Concept("Guido", "person")>>

\* Concepts in three fragments, one of them in other categories than the rest.
CorpusConcepts ==
    (1 :> Highlight(1, TextModels, PythonML, <<"ai">>, <<"work">>, StartTime - 10)) @@
    (2 :> Highlight(2, TextDatasets, pythonml, <<"AI">>, <<>>, StartTime - 50000)) @@
    (3 :> Highlight(3, TextDatasets, PythonGuido, <<>>, <<"work">>, StartTime - 20)) @@
    (4 :> Highlight(4, TextModels, <<>>, <<>>, <<>>, StartTime - 30))

\* Three candidates of one source, two of them equally similar and equally old,
\* the newest the least similar.
CorpusTies ==
    (1 :> Highlight(1, TextModels, PythonML, <<"ai">>, <<>>, StartTime - 10)) @@
    (2 :> Highlight(2, TextDatasets, pythonml, <<"ai">>, <<>>, StartTime - 50000)) @@
    (3 :> Highlight(3, TextDatasets, pythonml, <<>>, <<>>, StartTime - 50000)) @@
    (4 :> Highlight(4, TextWeather, PythonAI, <<>>, <<>>, StartTime - 40000))

Corpora == {CorpusConcepts, CorpusTies}

\* Two fragments with the same concepts, one without concepts whose text is
\* somewhat like theirs, and one that is too short to be linked.
CorpusShort ==
    (1 :> Highlight(1, TextModels, PythonML, <<"ai">>, <<>>, StartTime - 50000)) @@
    (2 :> Highlight(2, TextModels, pythonml, <<"ai">>, <<>>, StartTime - 50000)) @@
    (3 :> Highlight(3, TextDatasets, <<>>, <<>>, <<>>, StartTime - 50000)) @@
    (4 :> Highlight(4, TextShort, PythonAI, <<>>, <<>>, StartTime - 40000))

CorporaConc == Corpora \cup {CorpusShort}

\* The ids a caller may ask for: those of the corpora and one that is in none.
Ids == {1, 2, 3, 4}
QueryIds == Ids \cup {9}

----------------------------------------------------------------------------
(* State *)

Procs == {1, 2}

IdleQuery ==
    [pc |-> "idle", sourceId |-> 0, maxResults |-> 0, minSimilarity |-> 0,
     useAI |-> FALSE, excludeIds |-> <<>>, startedAt |-> 0, source |-> <<>>,
     related |-> <<>>, error |-> "",
     \* for the record: the tiers that ran, with how many results each gave,
     \* and what the last of them gave, before the temporal decay
     tiers |-> <<>>, produced |-> <<>>]

IdleLink ==
    [pc |-> "idle", caller |-> 0, source |-> <<>>, allHighlights |-> <<>>,
     maxLinks |-> 0, response |-> <<>>, result |-> <<>>]

\* The explainText call: the text, the cache key, the backend the fetch went
\* to, the string returned
IdleExplain ==
    [pc |-> "idle", text |-> "", backend |-> <<>>, result |-> <<>>,
     clearPending |-> FALSE]

\* slots[p] is the place in unlinked of the highlight that worker p of the
\* current Promise.all is on, 0 when it has none or has settled
IdleBatch ==
    [pc |-> "idle", unlinked |-> <<>>, i |-> 0, batchSize |-> 0,
     slots |-> [p \in Procs |-> 0], progress |-> <<>>,
     saved |-> {}, caught |-> {}, faults |-> 0, cancel |-> <<>>,
     onProgress |-> FALSE]

\* The searchHighlights call: the query, the filters, the list it resolved with
IdleSearch == [pc |-> "idle", query |-> "", filters |-> <<>>, results |-> <<>>]

InitWith(corpora) ==
    /\ store \in corpora
    /\ now = StartTime
    /\ vocabularyIndex = <<>>
    /\ conceptGraph = <<>>
    /\ lastIndexUpdate = 0
    /\ provider = "none"
    /\ apiKey = ""
    /\ query = [p \in Procs |-> IdleQuery]
    /\ link = IdleLink
    /\ batch = IdleBatch
    /\ edits = 0
    /\ ticks = 0
    /\ indexedSnapshot = <<>>
    /\ cache = <<>>
    /\ explain = IdleExplain
    /\ search = IdleSearch

Init == InitWith(Corpora)

\* The stores that batchBuildLinks is run over
InitConc == InitWith(CorporaConc)

----------------------------------------------------------------------------
(* ConceptLinker.findRelatedHighlights, from one suspension to the next *)

\* related.map(r => r.highlight.id)
IdsOf(related) == [i \in 1..Len(related) |-> related[i].highlight.id]

\* The record of a tier that ran
Ran(q, tier, related) ==
    [q EXCEPT !.tiers = Append(@, [tier |-> tier, count |-> Len(related)])]

\* lines 136-141: temporal decay, sort, slice
Finalize(q, related, t) ==
    [q EXCEPT !.pc = "done", !.produced = related,
              !.related = RankAndTruncate(applyTemporalDecay(related, t), q.maxResults)]

\* The text tier after the concept tier whatever the concept tier gave
AlwaysTextAfterConcepts(q, related, t) == [q EXCEPT !.pc = "tfidf"]

\* lines 126-134, up to the store read of findRelatedByTFIDF
AfterConcepts(q, related, t) ==
    IF Len(related) = 0 THEN [q EXCEPT !.pc = "tfidf"]
    ELSE Finalize(q, related, t)

\* lines 116-134, up to the store read of the tier that is chosen
AfterAI(q, related, t) ==
    IF Len(related) = 0 /\ Len(q.source[1].concepts) > 0
    THEN [q EXCEPT !.pc = "concepts"]
    ELSE AfterConcepts(q, related, t)

\* A query that goes on without a source: an empty result instead of the error
EmptyResultWithoutSource(q, found, prov, key, t) ==
    IF found = <<>>
    THEN [q EXCEPT !.pc = "done"]
    ELSE IF q.useAI /\ isAvailable(prov, key)
    THEN [q EXCEPT !.source = found, !.pc = "aiRead"]
    ELSE AfterAI([q EXCEPT !.source = found], <<>>, t)

\* lines 100-114, from the result of storage.getHighlight
AfterSource(q, found, prov, key, t) ==
    IF found = <<>>
    THEN [q EXCEPT !.pc = "failed", !.error = "Source highlight not found"]
    ELSE IF q.useAI /\ isAvailable(prov, key)
    THEN [q EXCEPT !.source = found, !.pc = "aiRead"]
    ELSE AfterAI([q EXCEPT !.source = found], <<>>, t)

\* lines 84-98: the call, up to its first store read
StartedQuery(sourceId, maxResults, minSimilarity, useAI, excludeIds, t, last) ==
    [IdleQuery EXCEPT
        !.pc = IF IndexIsStale(t, last) THEN "rebuild" ELSE "getSource",
        !.sourceId = sourceId, !.maxResults = maxResults,
        !.minSimilarity = minSimilarity, !.useAI = useAI,
        !.excludeIds = excludeIds, !.startedAt = t]

StartQuery(p, sourceId, maxResults, minSimilarity, useAI, excludeIds) ==
    /\ query[p].pc \in {"idle", "done", "failed"}
    /\ query' = [query EXCEPT ![p] =
                    StartedQuery(sourceId, maxResults, minSimilarity, useAI,
                                 excludeIds, now, lastIndexUpdate)]
    /\ UNCHANGED <<store, now, vocabularyIndex, conceptGraph, lastIndexUpdate,
                   provider, apiKey, link, edits, ticks, batch,
                   indexedSnapshot, cache, explain, search>>

\* What the indexes are built from: the id, the text and the concepts
IndexedFields(highlights) ==
    [i \in 1..Len(highlights) |->
        [id |-> highlights[i].id, text |-> highlights[i].text,
         concepts |-> highlights[i].concepts]]

\* A rebuild whose clear() and whose loops are two steps, with other code
\* running in between
RebuildClearsFirst(p) ==
    /\ query[p].pc = "rebuild"
    /\ IF vocabularyIndex # <<>> \/ conceptGraph # <<>>
       THEN /\ vocabularyIndex' = <<>>
            /\ conceptGraph' = <<>>
            /\ UNCHANGED <<lastIndexUpdate, query, indexedSnapshot>>
       ELSE LET highlights == getAllHighlights(store)
            IN  /\ vocabularyIndex' = BuildVocabularyIndex(highlights)
                /\ conceptGraph' = BuildConceptGraph(highlights)
                /\ indexedSnapshot' = IndexedFields(highlights)
                /\ lastIndexUpdate' = now
                /\ query' = [query EXCEPT ![p].pc = "getSource"]
    /\ UNCHANGED <<store, now, provider, apiKey, link, edits, ticks, batch,
                   cache, explain, search>>

\* rebuildIndexes, from the result of storage.getAllHighlights to its end:
\* clear(), the two loops and lastIndexUpdate = Date.now() run without a
\* suspension
RebuildIndexes(p) ==
    /\ query[p].pc = "rebuild"
    /\ LET highlights == getAllHighlights(store)
       IN  /\ vocabularyIndex' = BuildVocabularyIndex(highlights)
           /\ conceptGraph' = BuildConceptGraph(highlights)
           /\ indexedSnapshot' = IndexedFields(highlights)
    /\ lastIndexUpdate' = now
    /\ query' = [query EXCEPT ![p].pc = "getSource"]
    /\ UNCHANGED <<store, now, provider, apiKey, link, edits, ticks, batch,
                   cache, explain, search>>

GetSource(p) ==
    /\ query[p].pc = "getSource"
    /\ query' = [query EXCEPT ![p] =
                    AfterSource(query[p], getHighlight(store, query[p].sourceId),
                                provider, apiKey, now)]
    /\ UNCHANGED <<store, now, vocabularyIndex, conceptGraph, lastIndexUpdate,
                   provider, apiKey, link, edits, ticks, batch,
                   indexedSnapshot, cache, explain, search>>

\* findRelatedWithAI, from the result of storage.getAllHighlights
FindRelatedWithAI(p) ==
    /\ query[p].pc = "aiRead"
    /\ LET q == query[p]
           source == q.source[1]
           candidateHighlights == Candidates(source, getAllHighlights(store), q.excludeIds)
           call == linkConcepts(provider, apiKey, source.id, candidateHighlights,
                                q.maxResults)
           related == MapAIResults(call.ids, candidateHighlights)
       IN  IF call.fetch
           THEN /\ query' = [query EXCEPT ![p].pc = "aiLink"]
                /\ link' = [IdleLink EXCEPT !.pc = "fetch", !.caller = p,
                                !.source = <<source>>,
                                !.allHighlights = candidateHighlights,
                                !.maxLinks = OrDefault(q.maxResults, DefaultMaxLinks)]
           ELSE /\ query' = [query EXCEPT ![p] =
                                AfterAI(Ran(q, "ai_semantic", related), related, now)]
                /\ UNCHANGED link
    /\ UNCHANGED <<store, now, vocabularyIndex, conceptGraph, lastIndexUpdate,
                   provider, apiKey, edits, ticks, batch,
                   indexedSnapshot, cache, explain, search>>

\* findRelatedByConcepts, from the result of storage.getAllHighlights
FindRelatedByConcepts(p) ==
    /\ query[p].pc = "concepts"
    /\ LET q == query[p]
           related == findRelatedByConcepts(conceptGraph, q.source[1],
                          getAllHighlights(store), q.minSimilarity, q.excludeIds)
       IN  query' = [query EXCEPT ![p] =
                        AfterConcepts(Ran(q, "concept_based", related), related, now)]
    /\ UNCHANGED <<store, now, vocabularyIndex, conceptGraph, lastIndexUpdate,
                   provider, apiKey, link, edits, ticks, batch,
                   indexedSnapshot, cache, explain, search>>

\* findRelatedByTFIDF, from the result of storage.getAllHighlights
FindRelatedByTFIDF(p) ==
    /\ query[p].pc = "tfidf"
    /\ LET q == query[p]
           related == findRelatedByTFIDF(q.source[1], getAllHighlights(store),
                                         q.minSimilarity, q.excludeIds)
       IN  query' = [query EXCEPT ![p] =
                        Finalize(Ran(q, "text_similarity", related), related, now)]
    /\ UNCHANGED <<store, now, vocabularyIndex, conceptGraph, lastIndexUpdate,
                   provider, apiKey, link, edits, ticks, batch,
                   indexedSnapshot, cache, explain, search>>

----------------------------------------------------------------------------
(* Other actors: the clock, the store, the settings *)

Tick(d) ==
    /\ ticks < MaxTicks
    /\ now' = now + d
    /\ ticks' = ticks + 1
    /\ UNCHANGED <<store, vocabularyIndex, conceptGraph, lastIndexUpdate,
                   provider, apiKey, query, link, edits, batch,
                   indexedSnapshot, cache, explain, search>>

\* StorageManager.deleteHighlight
DeleteHighlight(id) ==
    /\ edits < MaxEdits
    /\ id \in DOMAIN store
    /\ store' = [i \in DOMAIN store \ {id} |-> store[i]]
    /\ edits' = edits + 1
    /\ UNCHANGED <<now, vocabularyIndex, conceptGraph, lastIndexUpdate,
                   provider, apiKey, query, link, ticks, batch,
                   indexedSnapshot, cache, explain, search>>

\* StorageManager.saveHighlight: updatedAt = Date.now(), store.put
saveHighlight(st, highlight, t) ==
    [i \in DOMAIN st \cup {highlight.id} |->
        IF i = highlight.id THEN [highlight EXCEPT !.updatedAt = t] ELSE st[i]]

\* AIService.initialize: the provider from the stored settings, and the
\* stored key (result.apiKey || ''). The two assignments are one step here:
\* the state between them (new provider, old key) answers isAvailable and
\* the choice of linker as one of the three settings does.
InitializeAI(settings) ==
    /\ provider' = settings.aiProvider
    /\ apiKey' = settings.apiKey
    /\ <<provider', apiKey'>> # <<provider, apiKey>>
    /\ UNCHANGED <<store, now, vocabularyIndex, conceptGraph, lastIndexUpdate,
                   query, link, edits, ticks, batch,
                   indexedSnapshot, cache, explain, search>>

\* The settings a user may have stored
StoredSettings ==
    {[aiProvider |-> "none", apiKey |-> ""],
     [aiProvider |-> "local", apiKey |-> ""],
     [aiProvider |-> "openai", apiKey |-> "sk"]}

MaxResultsChoices == {1, DefaultMaxResults}
ExcludeChoices == {<<>>, <<2>>}

Environment ==
    \/ Tick(INDEX_REFRESH_INTERVAL + 1)
    \/ \E id \in {2, 3} : DeleteHighlight(id)
    \/ \E settings \in StoredSettings : InitializeAI(settings)

QuerySteps(p) ==
    \/ RebuildIndexes(p)
    \/ GetSource(p)
    \/ FindRelatedWithAI(p)
    \/ FindRelatedByConcepts(p)
    \/ FindRelatedByTFIDF(p)

\* One caller at a time, with every choice of options
Next ==
    \/ \E id \in QueryIds, maxResults \in MaxResultsChoices, useAI \in BOOLEAN,
          excludeIds \in ExcludeChoices :
            StartQuery(1, id, maxResults, DefaultMinSimilarity, useAI, excludeIds)
    \/ QuerySteps(1)
    \/ Environment

Spec == Init /\ [][Next]_vars

----------------------------------------------------------------------------
(* AIService.linkConcepts, called on its own *)

MaxLinksChoices == {0, 1, 2}

\* linkConcepts({sourceHighlightId, allHighlights, maxLinks}) with the
\* highlights of the store, up to the fetch of callOpenAI or to its return
CallLinkConcepts(sourceHighlightId, maxLinks) ==
    /\ link.pc \in {"idle", "done"}
    /\ LET allHighlights == getAllHighlights(store)
           call == linkConcepts(provider, apiKey, sourceHighlightId, allHighlights,
                                maxLinks)
       IN  link' = IF call.fetch
                   THEN [IdleLink EXCEPT
                            !.pc = "fetch",
                            !.source = SelectSeq(allHighlights,
                                          LAMBDA h : h.id = sourceHighlightId),
                            !.allHighlights = allHighlights,
                            !.maxLinks = OrDefault(maxLinks, DefaultMaxLinks)]
                   ELSE [IdleLink EXCEPT
                            !.pc = "done",
                            !.allHighlights = allHighlights,
                            !.maxLinks = OrDefault(maxLinks, DefaultMaxLinks),
                            !.result = call.ids]
    /\ UNCHANGED <<store, now, vocabularyIndex, conceptGraph, lastIndexUpdate,
                   provider, apiKey, query, edits, ticks, batch,
                   indexedSnapshot, cache, explain, search>>

\* The endpoint answers the fetch, or the fetch fails
BackendResponds(response) ==
    /\ link.pc = "fetch"
    /\ link' = [link EXCEPT !.pc = "responded", !.response = <<response>>]
    /\ UNCHANGED <<store, now, vocabularyIndex, conceptGraph, lastIndexUpdate,
                   provider, apiKey, query, edits, ticks, batch,
                   indexedSnapshot, cache, explain, search>>

\* linkConceptsWithAI goes on from its await, and with it the query that
\* called it, if one did (findRelatedWithAI lines 164-170)
LinkResume ==
    /\ link.pc = "responded"
    /\ LET relatedIds == linkConceptsWithAI(link.source[1], link.allHighlights,
                                            link.maxLinks, link.response[1])
           p == link.caller
           related == MapAIResults(relatedIds, link.allHighlights)
       IN  /\ link' = [link EXCEPT !.pc = "done", !.result = relatedIds]
           /\ query' = IF p = 0 THEN query
                       ELSE [query EXCEPT ![p] =
                                AfterAI(Ran(query[p], "ai_semantic", related),
                                        related, now)]
    /\ UNCHANGED <<store, now, vocabularyIndex, conceptGraph, lastIndexUpdate,
                   provider, apiKey, edits, ticks, batch,
                   indexedSnapshot, cache, explain, search>>

LinkSteps ==
    \/ \E response \in Responses : BackendResponds(response)
    \/ LinkResume

NextLink ==
    \/ \E id \in QueryIds, maxLinks \in MaxLinksChoices : CallLinkConcepts(id, maxLinks)
    \/ LinkSteps
    \/ \E settings \in StoredSettings : InitializeAI(settings)
    \/ \E id \in {2, 3} : DeleteHighlight(id)

SpecLink == Init /\ [][NextLink]_vars

\* The program goes on whenever it can; nothing makes the endpoint answer.
FairSpecLink == SpecLink /\ WF_vars(LinkResume)

----------------------------------------------------------------------------
(* ConceptLinker.batchBuildLinks: the workers of one Promise.all are the
   query slots *)

MinContentLength == 50
BatchSizes == {1, 2}
BatchMaxResults == 5
BatchMinSimilarity == 400

\* Every fragment that is long enough, linked or not
findLongHighlights(st) ==
    SelectSeq(getAllHighlights(st), LAMBDA h : Len(h.text) >= MinContentLength)

\* findUnlinkedHighlights, from the result of storage.getAllHighlights
findUnlinkedHighlights(st) ==
    SelectSeq(getAllHighlights(st),
              LAMBDA h : Len(h.relatedHighlightIds) = 0 /\ Len(h.text) >= MinContentLength)

\* A slice that is one element longer than the batch size
ChunkOneTooLong(b, i) == {k \in 1..Len(b.unlinked) : i < k /\ k <= i + b.batchSize + 1}

\* unlinked.slice(i, i + batchSize), as places in unlinked
ChunkAt(b, i) == {k \in 1..Len(b.unlinked) : i < k /\ k <= i + b.batchSize}

\* batch.map(async highlight => ...): every worker of the chunk runs up to
\* the first await of its findRelatedHighlights before the loop awaits
StartChunk(b, i, t, last) ==
    LET chunk == ChunkAt(b, i)
        slots == [p \in Procs |-> IF i + p \in chunk THEN i + p ELSE 0]
    IN  [batch |-> [b EXCEPT !.pc = "chunk", !.i = i, !.slots = slots],
         query |-> [p \in Procs |->
                      IF slots[p] = 0 THEN IdleQuery
                      ELSE StartedQuery(b.unlinked[slots[p]].id, BatchMaxResults,
                                        BatchMinSimilarity, FALSE, <<>>, t, last)]]

\* The for loop at its test (line 581)
LoopFrom(b, i, t, last) ==
    IF i < Len(b.unlinked)
    THEN StartChunk(b, i, t, last)
    ELSE [batch |-> [b EXCEPT !.pc = "done", !.i = i,
                              !.slots = [p \in Procs |-> 0]],
          query |-> [p \in Procs |-> IdleQuery]]

\* batchBuildLinks(batchSize, onProgress), up to the store read; onProgress
\* tells whether the caller passed a callback
BatchBuildLinks(batchSize, onProgress) ==
    /\ batch.pc \in {"idle", "done"}
    /\ \A p \in Procs : query[p].pc \in {"idle", "done", "failed"}
    /\ batch' = [IdleBatch EXCEPT !.pc = "findUnlinked", !.batchSize = batchSize,
                                  !.faults = batch.faults,
                                  !.onProgress = onProgress]
    /\ UNCHANGED <<store, now, vocabularyIndex, conceptGraph, lastIndexUpdate,
                   provider, apiKey, query, link, edits, ticks,
                   indexedSnapshot, cache, explain, search>>

\* The store read of findUnlinkedHighlights returns; the first chunk starts
FindUnlinkedHighlights ==
    /\ batch.pc = "findUnlinked"
    /\ LET b == [batch EXCEPT !.unlinked = findUnlinkedHighlights(store)]
           next == LoopFrom(b, 0, now, lastIndexUpdate)
       IN  /\ batch' = next.batch
           /\ query' = next.query
    /\ UNCHANGED <<store, now, vocabularyIndex, conceptGraph, lastIndexUpdate,
                   provider, apiKey, link, edits, ticks,
                   indexedSnapshot, cache, explain, search>>

\* A worker that keeps the candidates in the order the tier produced them
WorkerSaveUnranked(p) ==
    /\ batch.pc = "chunk"
    /\ batch.slots[p] # 0
    /\ query[p].pc = "done"
    /\ LET k == batch.slots[p]
           highlight == [batch.unlinked[k] EXCEPT
                            !.relatedHighlightIds = IdsOf(query[p].produced)]
       IN  /\ store' = saveHighlight(store, highlight, now)
           /\ batch' = [batch EXCEPT !.slots[p] = 0, !.unlinked[k] = highlight,
                                     !.saved = @ \cup {k}]
    /\ UNCHANGED <<now, vocabularyIndex, conceptGraph, lastIndexUpdate,
                   provider, apiKey, query, link, edits, ticks,
                   indexedSnapshot, cache, explain, search>>

\* A worker's query returned: highlight.relatedHighlightIds = ..., and the
\* put of storage.saveHighlight(highlight)
WorkerSave(p) ==
    /\ batch.pc = "chunk"
    /\ batch.slots[p] # 0
    /\ query[p].pc = "done"
    /\ LET k == batch.slots[p]
           highlight == [batch.unlinked[k] EXCEPT
                            !.relatedHighlightIds = IdsOf(query[p].related)]
       IN  /\ store' = saveHighlight(store, highlight, now)
           /\ batch' = [batch EXCEPT !.slots[p] = 0, !.unlinked[k] = highlight,
                                     !.saved = @ \cup {k}]
    /\ UNCHANGED <<now, vocabularyIndex, conceptGraph, lastIndexUpdate,
                   provider, apiKey, query, link, edits, ticks,
                   indexedSnapshot, cache, explain, search>>

\* A worker's query returned and the put of storage.saveHighlight(highlight)
\* was rejected (request.onerror, or the transaction threw): the catch block
\* logs it
WorkerSaveFails(p) ==
    /\ batch.pc = "chunk"
    /\ batch.faults < MaxFaults
    /\ batch.slots[p] # 0
    /\ query[p].pc = "done"
    /\ LET k == batch.slots[p]
           highlight == [batch.unlinked[k] EXCEPT
                            !.relatedHighlightIds = IdsOf(query[p].related)]
       IN  batch' = [batch EXCEPT !.slots[p] = 0, !.unlinked[k] = highlight,
                                  !.caught = @ \cup {k}, !.faults = @ + 1]
    /\ UNCHANGED <<store, now, vocabularyIndex, conceptGraph, lastIndexUpdate,
                   provider, apiKey, query, link, edits, ticks,
                   indexedSnapshot, cache, explain, search>>

\* A worker without the try block: the error rejects Promise.all and with it
\* batchBuildLinks
WorkerRethrow(p) ==
    /\ batch.pc = "chunk"
    /\ batch.slots[p] # 0
    /\ query[p].pc = "failed"
    /\ batch' = [batch EXCEPT !.pc = "raised", !.slots = [q \in Procs |-> 0]]
    /\ query' = [q \in Procs |-> IdleQuery]
    /\ UNCHANGED <<store, now, vocabularyIndex, conceptGraph, lastIndexUpdate,
                   provider, apiKey, link, edits, ticks,
                   indexedSnapshot, cache, explain, search>>

\* A worker's query threw: the catch block logs it
WorkerCatch(p) ==
    /\ batch.pc = "chunk"
    /\ batch.slots[p] # 0
    /\ query[p].pc = "failed"
    /\ batch' = [batch EXCEPT !.slots[p] = 0, !.caught = @ \cup {batch.slots[p]}]
    /\ UNCHANGED <<store, now, vocabularyIndex, conceptGraph, lastIndexUpdate,
                   provider, apiKey, query, link, edits, ticks,
                   indexedSnapshot, cache, explain, search>>

\* onProgress(i + batchSize, unlinked.length), not clamped to the total
ChunkSettledUnclamped ==
    /\ batch.pc = "chunk"
    /\ \A p \in Procs : batch.slots[p] = 0
    /\ batch' = [batch EXCEPT
                    !.pc = "pause",
                    !.progress =
                        IF batch.onProgress
                        THEN Append(@, <<batch.i + batch.batchSize, Len(batch.unlinked)>>)
                        ELSE @]
    /\ UNCHANGED <<store, now, vocabularyIndex, conceptGraph, lastIndexUpdate,
                   provider, apiKey, query, link, edits, ticks,
                   indexedSnapshot, cache, explain, search>>

\* Promise.all has settled: onProgress if there is one, then the 100 ms timer
\* is set
ChunkSettled ==
    /\ batch.pc = "chunk"
    /\ \A p \in Procs : batch.slots[p] = 0
    /\ batch' = [batch EXCEPT
                    !.pc = "pause",
                    !.progress =
                        IF batch.onProgress
                        THEN Append(@, <<Min(batch.i + batch.batchSize, Len(batch.unlinked)),
                                         Len(batch.unlinked)>>)
                        ELSE @]
    /\ UNCHANGED <<store, now, vocabularyIndex, conceptGraph, lastIndexUpdate,
                   provider, apiKey, query, link, edits, ticks,
                   indexedSnapshot, cache, explain, search>>

\* The timer fires: i += batchSize, and the loop goes on
PauseOver ==
    /\ batch.pc = "pause"
    /\ LET next == LoopFrom(batch, batch.i + batch.batchSize, now, lastIndexUpdate)
       IN  /\ batch' = next.batch
           /\ query' = next.query
    /\ UNCHANGED <<store, now, vocabularyIndex, conceptGraph, lastIndexUpdate,
                   provider, apiKey, link, edits, ticks,
                   indexedSnapshot, cache, explain, search>>

BatchSteps ==
    \/ FindUnlinkedHighlights
    \/ \E p \in Procs : WorkerSave(p)
    \/ \E p \in Procs : WorkerCatch(p)
    \/ ChunkSettled
    \/ PauseOver

\* The clock at the edge of the refresh interval and past it; a highlight
\* deleted in another tab
EnvironmentConc ==
    \/ \E d \in {INDEX_REFRESH_INTERVAL, INDEX_REFRESH_INTERVAL + 1} : Tick(d)
    \/ DeleteHighlight(2)

\* The queries of the batch are made with useAI: false
WorkerQuerySteps(p) ==
    \/ RebuildIndexes(p)
    \/ GetSource(p)
    \/ FindRelatedByConcepts(p)
    \/ FindRelatedByTFIDF(p)

NextConc ==
    \/ \E batchSize \in BatchSizes : BatchBuildLinks(batchSize, TRUE)
    \/ BatchSteps
    \/ \E p \in Procs : WorkerQuerySteps(p)
    \/ EnvironmentConc

SpecConc == InitConc /\ [][NextConc]_vars

\* batchBuildLinks over a store whose puts may be rejected
NextFault ==
    \/ \E batchSize \in BatchSizes : BatchBuildLinks(batchSize, TRUE)
    \/ BatchSteps
    \/ \E p \in Procs : WorkerSaveFails(p)
    \/ \E p \in Procs : WorkerQuerySteps(p)
    \/ DeleteHighlight(2)

SpecFault == InitConc /\ [][NextFault]_vars

\* The caller of batchBuildLinks asks for the run to stop, at loop position
\* batch.i. batchBuildLinks(batchSize, onProgress) takes no signal and reads
\* no flag, so the request changes nothing the loop reads.
RequestCancel ==
    /\ batch.pc \in {"chunk", "pause"}
    /\ batch.cancel = <<>>
    /\ batch' = [batch EXCEPT !.cancel = <<batch.i>>]
    /\ UNCHANGED <<store, now, vocabularyIndex, conceptGraph, lastIndexUpdate,
                   provider, apiKey, query, link, edits, ticks,
                   indexedSnapshot, cache, explain, search>>

NextCancel ==
    \/ \E batchSize \in BatchSizes : BatchBuildLinks(batchSize, TRUE)
    \/ BatchSteps
    \/ \E p \in Procs : WorkerQuerySteps(p)
    \/ RequestCancel
    \/ DeleteHighlight(2)

SpecCancel == InitConc /\ [][NextCancel]_vars

\* batchBuildLinks called without a callback, with batch sizes from 0 on,
\* while a fragment is deleted in another tab
AnyBatchSizes == {0, 1, 2}

NextSizes ==
    \/ \E batchSize \in AnyBatchSizes : BatchBuildLinks(batchSize, FALSE)
    \/ BatchSteps
    \/ \E p \in Procs : WorkerQuerySteps(p)
    \/ DeleteHighlight(2)

SpecSizes == InitConc /\ [][NextSizes]_vars

\* handleMessage, SAVE_HIGHLIGHT: a page sends a fragment it has edited (here:
\* a tag added to the stored record) and the handler saves it
HandleSaveHighlight(id) ==
    /\ edits < MaxEdits
    /\ id \in DOMAIN store
    /\ LET payload == [store[id] EXCEPT !.tags = Append(@, "edited")]
       IN  store' = saveHighlight(store, payload, now)
    /\ edits' = edits + 1
    /\ UNCHANGED <<now, vocabularyIndex, conceptGraph, lastIndexUpdate,
                   provider, apiKey, query, link, ticks, batch,
                   indexedSnapshot, cache, explain, search>>

\* batchBuildLinks while pages save and delete fragments
NextEdit ==
    \/ \E batchSize \in BatchSizes : BatchBuildLinks(batchSize, TRUE)
    \/ BatchSteps
    \/ \E p \in Procs : WorkerQuerySteps(p)
    \/ HandleSaveHighlight(3)
    \/ DeleteHighlight(2)

SpecEdit == InitConc /\ [][NextEdit]_vars

-----------------------------------------------------------------------------
(* The tiers on their own: one caller, queries without AI at three thresholds,
   over every store that the corpora and a deletion give. *)

\* Two fragments with the same text, and nothing else in the store
CorpusTwins ==
    (1 :> Highlight(1, TextModels, <<>>, <<>>, <<>>, StartTime - 50000)) @@
    (2 :> Highlight(2, TextModels, <<>>, <<>>, <<>>, StartTime - 40000))

CorporaTiers == CorporaConc \cup {CorpusTwins}

InitTiers == InitWith(CorporaTiers)

MinSimilarityChoices == {0, DefaultMinSimilarity, 1000}

NextTiers ==
    \/ \E id \in Ids, minSimilarity \in MinSimilarityChoices :
          StartQuery(1, id, DefaultMaxResults, minSimilarity, FALSE, <<>>)
    \/ WorkerQuerySteps(1)
    \/ \E id \in Ids : DeleteHighlight(id)
    \/ Tick(INDEX_REFRESH_INTERVAL + 1)

SpecTiers == InitTiers /\ [][NextTiers]_vars

-----------------------------------------------------------------------------

(* ConceptLinker: a rebuild whose store read fails *)

ReadFailed == "getAllHighlights rejected"

\* A failing rebuild that has cleared the indexes before the read
RebuildFailsCleared(p) ==
    /\ query[p].pc = "rebuild"
    /\ vocabularyIndex' = <<>>
    /\ conceptGraph' = <<>>
    /\ query' = [query EXCEPT ![p].pc = "failed", ![p].error = ReadFailed]
    /\ UNCHANGED <<store, now, lastIndexUpdate, provider, apiKey, link, edits,
                   ticks, batch, indexedSnapshot, cache, explain, search>>

\* rebuildIndexes when storage.getAllHighlights rejects: the await at line 42
\* throws, nothing after it runs, and findRelatedHighlights, which awaits the
\* rebuild outside any try block, rejects with the same error
RebuildFails(p) ==
    /\ query[p].pc = "rebuild"
    /\ query' = [query EXCEPT ![p].pc = "failed", ![p].error = ReadFailed]
    /\ UNCHANGED <<store, now, vocabularyIndex, conceptGraph, lastIndexUpdate,
                   provider, apiKey, link, edits, ticks, batch,
                   indexedSnapshot, cache, explain, search>>

\* Queries of one caller over a store that may reject a read
NextRebuild ==
    \/ \E id \in QueryIds :
          StartQuery(1, id, DefaultMaxResults, DefaultMinSimilarity, FALSE, <<>>)
    \/ WorkerQuerySteps(1)
    \/ RebuildFails(1)
    \/ Tick(INDEX_REFRESH_INTERVAL + 1)
    \/ DeleteHighlight(2)

SpecRebuild == Init /\ [][NextRebuild]_vars

-----------------------------------------------------------------------------

(* StorageManager: search *)

\* 1000 * 60 * 60 * 24 milliseconds, in minutes
OneDay == 1440

\* String.prototype.includes
Includes(str, part) ==
    \E i \in 1..(Len(str) - Len(part) + 1) : SubSeq(str, i, i + Len(part) - 1) = part

\* Array.prototype.join(' ')
RECURSIVE JoinWithBlank(_)
JoinWithBlank(parts) ==
    IF parts = <<>> THEN ""
    ELSE IF Len(parts) = 1 THEN parts[1]
    ELSE parts[1] \o " " \o JoinWithBlank(Tail(parts))

\* array.some(x => x.toLowerCase().includes(term))
SomeIncludes(strings, term) ==
    \E i \in 1..Len(strings) : Includes(ToLowerCase(strings[i]), term)

\* toLowerCase, worked out once for each text of the model
LowerCaseTable == {[text |-> t, lower |-> ToLowerCase(t)] : t \in Texts}

LowerCaseOf(text) ==
    IF text \in Texts
    THEN (CHOOSE e \in LowerCaseTable : e.text = text).lower
    ELSE ToLowerCase(text)

\* The score in halves, so that 0.5 * referenceCount is a whole number.
\* t is Date.now().
calculateRelevanceScore(highlight, searchTerms, t) ==
    LET text == LowerCaseOf(highlight.text)
        note == ToLowerCase(highlight.note)
        title == ToLowerCase(highlight.pageTitle)
        fullQuery == JoinWithBlank(searchTerms)
        names == [i \in 1..Len(highlight.concepts) |-> highlight.concepts[i].name]
        phrase == (IF Includes(text, fullQuery) THEN 10 ELSE 0)
                + (IF Includes(note, fullQuery) THEN 8 ELSE 0)
                + (IF Includes(title, fullQuery) THEN 5 ELSE 0)
        forTerm(term) ==
                  (IF Includes(text, term) THEN 3 ELSE 0)
                + (IF Includes(note, term) THEN 2 ELSE 0)
                + (IF Includes(title, term) THEN 1 ELSE 0)
                + (IF SomeIncludes(names, term) THEN 4 ELSE 0)
                + (IF SomeIncludes(highlight.topics, term) THEN 3 ELSE 0)
                + (IF SomeIncludes(highlight.tags, term) THEN 2 ELSE 0)
        terms == SumSeq([i \in 1..Len(searchTerms) |-> forTerm(searchTerms[i])])
        age == t - highlight.createdAt
        recency == (IF age < 7 * OneDay THEN 1 ELSE 0) + (IF age < OneDay THEN 2 ELSE 0)
    IN  2 * (phrase + terms + recency) + highlight.referenceCount

\* The filters of a call: a list that is absent or empty is <<>>, dateRange is
\* <<>> or <<[start |-> ..., end |-> ...]>>
NoFilters ==
    [collections |-> <<>>, tags |-> <<>>, colors |-> <<>>, dateRange |-> <<>>,
     topics |-> <<>>]

\* The filters without the one on topics
FiltersButTopics(highlights, filters) ==
    LET keep(h) ==
            /\ filters.collections # <<>> =>
                  \E i \in 1..Len(h.collectionIds) :
                      h.collectionIds[i] \in Range(filters.collections)
            /\ filters.tags # <<>> =>
                  \E i \in 1..Len(h.tags) : h.tags[i] \in Range(filters.tags)
            /\ filters.colors # <<>> => h.color \in Range(filters.colors)
            /\ filters.dateRange # <<>> =>
                  /\ h.createdAt >= filters.dateRange[1].start
                  /\ h.createdAt <= filters.dateRange[1].end
    IN  SelectSeq(highlights, keep)

\* lines 214-245: one filter after the other
ApplyFilters(highlights, filters) ==
    LET byCollections ==
            IF filters.collections # <<>>
            THEN SelectSeq(highlights, LAMBDA h :
                    \E i \in 1..Len(h.collectionIds) :
                        h.collectionIds[i] \in Range(filters.collections))
            ELSE highlights
        byTags ==
            IF filters.tags # <<>>
            THEN SelectSeq(byCollections, LAMBDA h :
                    \E i \in 1..Len(h.tags) : h.tags[i] \in Range(filters.tags))
            ELSE byCollections
        byColors ==
            IF filters.colors # <<>>
            THEN SelectSeq(byTags, LAMBDA h : h.color \in Range(filters.colors))
            ELSE byTags
        byDate ==
            IF filters.dateRange # <<>>
            THEN SelectSeq(byColors, LAMBDA h :
                    /\ h.createdAt >= filters.dateRange[1].start
                    /\ h.createdAt <= filters.dateRange[1].end)
            ELSE byColors
    IN  IF filters.topics # <<>>
        THEN SelectSeq(byDate, LAMBDA h :
                \E i \in 1..Len(h.topics) : h.topics[i] \in Range(filters.topics))
        ELSE byDate

searchHighlights(st, queryString, filters, t) ==
    LET allHighlights == getAllHighlights(st)
        searchTerms == SplitWhitespace(ToLowerCase(queryString))
        scored == [i \in 1..Len(allHighlights) |->
                      [highlight |-> allHighlights[i],
                       key |-> calculateRelevanceScore(allHighlights[i], searchTerms, t)]]
        sorted == SortDescByKey(SelectSeq(scored, LAMBDA item : item.key > 0))
    IN  ApplyFilters([i \in 1..Len(sorted) |-> sorted[i].highlight], filters)

\* handleMessage, SEARCH_HIGHLIGHTS, and searchHighlights from the result of
\* getAllHighlights to resolve(filtered)
SearchHighlights(queryString, filters) ==
    /\ search' = [pc |-> "done", query |-> queryString, filters |-> filters,
                  results |-> searchHighlights(store, queryString, filters, now)]
    /\ UNCHANGED <<store, now, vocabularyIndex, conceptGraph, lastIndexUpdate,
                   provider, apiKey, query, link, edits, ticks, batch,
                   indexedSnapshot, cache, explain>>

\* Fragments with notes, titles, collections, colours and reference counts:
\* one saved minutes ago, one some days ago, two older than a week
CorpusSearch ==
    (1 :> [Highlight(1, TextModels, PythonML, <<"ai">>, <<"work">>, StartTime - 10)
              EXCEPT !.pageTitle = "ML notes", !.collectionIds = <<"c1">>]) @@
    (2 :> [Highlight(2, TextDatasets, pythonml, <<"AI">>, <<>>, StartTime - 50000)
              EXCEPT !.note = "machine learning", !.collectionIds = <<"c1", "c2">>,
                     !.color = "green", !.referenceCount = 3]) @@
    (3 :> Highlight(3, TextWeather, <<>>, <<>>, <<"work">>, StartTime - 50000)) @@
    (4 :> [Highlight(4, TextShort, PythonAI, <<>>, <<"home">>, StartTime - 5000)
              EXCEPT !.referenceCount = 1])

\* The calls of the model: a query and the filters sent with it
SearchCalls ==
    {<<"machine learning", NoFilters>>,
     <<"machine learning", [NoFilters EXCEPT !.collections = <<"c1">>]>>,
     <<"PYTHON", [NoFilters EXCEPT !.tags = <<"work", "home">>]>>,
     <<"python ml", [NoFilters EXCEPT !.colors = <<"yellow">>, !.topics = <<"ai">>]>>,
     <<"", [NoFilters EXCEPT !.dateRange =
                <<[start |-> StartTime - 6000, end |-> StartTime]>>]>>,
     <<"zebra", NoFilters>>,
     <<"models", [NoFilters EXCEPT !.topics = <<"AI", "ai">>]>>}

InitSearch == InitWith({CorpusSearch, CorpusConcepts})

NextSearch ==
    \/ \E call \in SearchCalls : SearchHighlights(call[1], call[2])
    \/ Tick(OneDay)
    \/ \E id \in Ids : DeleteHighlight(id)

SpecSearch == InitSearch /\ [][NextSearch]_vars

-----------------------------------------------------------------------------

(* AIService: the result cache, explainText and the changes of provider.
   A response's content is named by what produced it: the text asked about,
   the provider and the key of the call. *)

\* String.prototype.charCodeAt for the characters of the requests
CharCodes ==
    ("{" :> 123) @@ ("}" :> 125) @@ ("\"" :> 34) @@ (":" :> 58) @@
    ("t" :> 116) @@ ("e" :> 101) @@ ("x" :> 120) @@
    ("A" :> 65) @@ ("B" :> 66) @@ ("L" :> 76) @@ ("M" :> 77) @@ ("a" :> 97)

\* simpleHash: hash = ((hash << 5) - hash) + char; hash = hash & hash, a
\* signed 32-bit number kept in two halves of 16 bits while it is computed,
\* then hash.toString(36)
simpleHash(str) ==
    LET RECURSIVE HashFrom(_, _, _)
        HashFrom(i, hi, lo) ==
            IF i > Len(str) THEN <<hi, lo>>
            ELSE LET low == lo * 31 + CharCodes[CharAt(str, i)]
                 IN  HashFrom(i + 1, (hi * 31 + low \div 65536) % 65536, low % 65536)
        halves == HashFrom(1, 0, 0)
        hash == IF halves[1] >= 32768
                THEN (halves[1] - 65536) * 65536 + halves[2]
                ELSE halves[1] * 65536 + halves[2]
        digits == Digits \o LowerCase
        RECURSIVE ToString36(_)
        ToString36(n) ==
            IF n < 36 THEN CharAt(digits, n + 1)
            ELSE ToString36(n \div 36) \o CharAt(digits, (n % 36) + 1)
    IN  IF hash < 0 THEN "-" \o ToString36(0 - hash) ELSE ToString36(hash)

\* getCacheKey(operation, { text }): JSON.stringify of the request, hashed
getCacheKey(operation, text) ==
    operation \o ":" \o simpleHash("{\"text\":\"" \o text \o "\"}")

\* Three selections; the requests of the last two differ in two characters
\* and hash alike (65 * 31 + 97 = 66 * 31 + 66)
ExplainTexts == {"ML", "Aa", "BB"}

\* The settings a user may have stored: those above and a second provider
\* with a key
CacheSettings == StoredSettings \cup {[aiProvider |-> "anthropic", apiKey |-> "sk"]}

\* handleMessage, EXPLAIN_SELECTION: aiService.initialize() is awaited first
ExplainSelection(text) ==
    /\ explain.pc \in {"idle", "done"}
    /\ explain' = [IdleExplain EXCEPT !.pc = "initialize", !.text = text,
                                      !.clearPending = explain.clearPending]
    /\ UNCHANGED <<store, now, vocabularyIndex, conceptGraph, lastIndexUpdate,
                   provider, apiKey, query, link, edits, ticks, batch,
                   indexedSnapshot, cache, search>>

\* AIService.initialize for the message: provider and key from the stored
\* settings; the cache is not touched
InitializeForExplain(settings) ==
    /\ explain.pc = "initialize"
    /\ provider' = settings.aiProvider
    /\ apiKey' = settings.apiKey
    /\ explain' = [explain EXCEPT !.pc = "explain"]
    /\ UNCHANGED <<store, now, vocabularyIndex, conceptGraph, lastIndexUpdate,
                   query, link, edits, ticks, batch, indexedSnapshot, cache, search>>

\* AIService.explainText up to its await: not available, a cache hit, a
\* provider that callAI throws for, or the request to the provider
ExplainText ==
    /\ explain.pc = "explain"
    /\ LET cacheKey == getCacheKey("explain", explain.text)
       IN  explain' =
             IF ~isAvailable(provider, apiKey)
             THEN [explain EXCEPT !.pc = "done", !.result = <<"unavailable">>]
             ELSE IF cacheKey \in DOMAIN cache
             THEN [explain EXCEPT !.pc = "done", !.result = cache[cacheKey]]
             ELSE IF provider = "local"
             THEN [explain EXCEPT !.pc = "done", !.result = <<"failed">>]
             ELSE [explain EXCEPT !.pc = "fetch", !.backend = <<provider, apiKey>>]
    /\ UNCHANGED <<store, now, vocabularyIndex, conceptGraph, lastIndexUpdate,
                   provider, apiKey, query, link, edits, ticks, batch,
                   indexedSnapshot, cache, search>>

\* The provider has answered or the call has thrown: cache.set and return,
\* or the catch block
ExplainResume(ok) ==
    /\ explain.pc = "fetch"
    /\ LET content == <<explain.text>> \o explain.backend
           cacheKey == getCacheKey("explain", explain.text)
       IN  IF ok
           THEN /\ cache' = [k \in DOMAIN cache \cup {cacheKey} |->
                                IF k = cacheKey THEN content ELSE cache[k]]
                /\ explain' = [explain EXCEPT !.pc = "done", !.result = content]
           ELSE /\ cache' = cache
                /\ explain' = [explain EXCEPT !.pc = "done", !.result = <<"failed">>]
    /\ UNCHANGED <<store, now, vocabularyIndex, conceptGraph, lastIndexUpdate,
                   provider, apiKey, query, link, edits, ticks, batch,
                   indexedSnapshot, search>>

\* AIService.setProvider(provider, apiKey?): with a key, the key is stored
\* and awaited before the cache is cleared
SetProvider(prov, key) ==
    /\ ~explain.clearPending
    /\ provider' = prov
    /\ IF Len(key) > 0
       THEN /\ apiKey' = key
            /\ explain' = [explain EXCEPT !.clearPending = TRUE]
            /\ cache' = cache
       ELSE /\ apiKey' = apiKey
            /\ explain' = explain
            /\ cache' = <<>>
    /\ UNCHANGED <<store, now, vocabularyIndex, conceptGraph, lastIndexUpdate,
                   query, link, edits, ticks, batch, indexedSnapshot, search>>

\* setProvider after chrome.storage.local.set: this.cache.clear()
SetProviderResume ==
    /\ explain.clearPending
    /\ cache' = <<>>
    /\ explain' = [explain EXCEPT !.clearPending = FALSE]
    /\ UNCHANGED <<store, now, vocabularyIndex, conceptGraph, lastIndexUpdate,
                   provider, apiKey, query, link, edits, ticks, batch,
                   indexedSnapshot, search>>

NextCache ==
    \/ \E text \in ExplainTexts : ExplainSelection(text)
    \/ \E settings \in CacheSettings : InitializeForExplain(settings)
    \/ ExplainText
    \/ \E ok \in BOOLEAN : ExplainResume(ok)
    \/ \E prov \in {"openai", "anthropic"}, key \in {"", "sk2"} : SetProvider(prov, key)
    \/ SetProviderResume

SpecCache == Init /\ [][NextCache]_vars

----------------------------------------------------------------------------
(* Properties of one query (specification Spec) *)

TierNames(q) == [i \in 1..Len(q.tiers) |-> q.tiers[i].tier]
TierRan(q, tier) == \E i \in 1..Len(q.tiers) : q.tiers[i].tier = tier

\* C1: a query whose store read finds no fragment under sourceId ends failed
\* with the error "Source highlight not found" and with no result list,
\* whatever its options and whether or not it rebuilt the index first.
C1_NotFound ==
    [][\A p \in Procs :
        (/\ query[p].pc = "getSource"
         /\ query'[p].pc # "getSource"
         /\ query[p].sourceId \notin DOMAIN store)
        => (/\ query'[p].pc = "failed"
            /\ query'[p].error = "Source highlight not found"
            /\ query'[p].related = <<>>
            /\ query'[p].tiers = <<>>)]_vars

\* A query with useAI, an available linker and a rebuild behind it has failed
\* on a fragment that was deleted from the store.
C1_Witness ==
    \E p \in Procs :
        /\ query[p].pc = "failed"
        /\ query[p].sourceId \in Ids
        /\ query[p].useAI
        /\ isAvailable(provider, apiKey)
        /\ lastIndexUpdate = query[p].startedAt

\* C2: no result of a finished query is the source fragment itself or a
\* fragment whose id the caller listed in excludeIds, and no fragment of the
\* store lists its own id among its related ids.
C2_Exclusion ==
    /\ \A p \in Procs :
          query[p].pc = "done" =>
              \A i \in 1..Len(query[p].related) :
                  /\ query[p].related[i].highlight.id # query[p].sourceId
                  /\ query[p].related[i].highlight.id \notin Range(query[p].excludeIds)
    /\ \A id \in DOMAIN store : id \notin Range(store[id].relatedHighlightIds)

\* A query gave results while the fragment it was told to leave out is in the
\* store and is the one the concept tier ranks first for this source.
C2_Witness ==
    \E p \in Procs :
        /\ query[p].pc = "done"
        /\ query[p].sourceId = 1
        /\ query[p].excludeIds = <<2>>
        /\ 2 \in DOMAIN store
        /\ Len(query[p].related) > 0
        /\ TierNames(query[p]) = <<"concept_based">>

\* C3: a finished query returns at most maxResults entries, in non-increasing
\* order of final similarity, entries of equal similarity in the order in
\* which the tier produced them.
Position(related, id) ==
    CHOOSE i \in 1..Len(related) : related[i].highlight.id = id

C3_RankedAndBounded ==
    \A p \in Procs :
        query[p].pc = "done" =>
            LET related == query[p].related
                produced == query[p].produced
            IN  /\ Len(related) <= query[p].maxResults
                /\ Range(IdsOf(related)) \subseteq Range(IdsOf(produced))
                /\ \A i, j \in 1..Len(related) :
                      i < j =>
                        /\ related[i].similarity >= related[j].similarity
                        /\ related[i].similarity = related[j].similarity
                           => Position(produced, related[i].highlight.id)
                                < Position(produced, related[j].highlight.id)

\* The tier produced three candidates, the least similar first; the result has
\* the two equally similar ones ahead of it, in the tier's order.
C3_Witness ==
    \E p \in Procs :
        /\ query[p].pc = "done"
        /\ Len(query[p].related) = 3
        /\ query[p].related[1].similarity = query[p].related[2].similarity
        /\ query[p].related[3].highlight.id = query[p].produced[1].highlight.id
        /\ query[p].related[3].similarity < query[p].related[2].similarity

\* More candidates than maxResults: the result is cut.
C3_WitnessCut ==
    \E p \in Procs :
        /\ query[p].pc = "done"
        /\ Len(query[p].produced) > query[p].maxResults
        /\ Len(query[p].related) = query[p].maxResults

TierRank(tier) ==
    CASE tier = "ai_semantic" -> 1
      [] tier = "concept_based" -> 2
      [] tier = "text_similarity" -> 3

GaveNothing(q, tiers) ==
    \A i \in 1..Len(q.tiers) : q.tiers[i].tier \in tiers => q.tiers[i].count = 0

\* C4: the tiers of a query run in the order semantic, concept, text; a tier
\* runs only after every tier before it gave nothing; the concept tier runs
\* exactly when the source has a concept and the semantic tier gave nothing,
\* the text tier exactly when the others gave nothing; every entry of the
\* result carries the matchType of the last tier that ran.
C4_TierOrder ==
    \A p \in Procs :
        LET q == query[p]
        IN  /\ \A i, j \in 1..Len(q.tiers) :
                  i < j => /\ TierRank(q.tiers[i].tier) < TierRank(q.tiers[j].tier)
                           /\ q.tiers[i].count = 0
            /\ TierRan(q, "concept_based") => Len(q.source[1].concepts) > 0
            /\ q.pc = "done" =>
                  /\ TierRan(q, "concept_based")
                        <=> (/\ Len(q.source[1].concepts) > 0
                             /\ GaveNothing(q, {"ai_semantic"}))
                  /\ TierRan(q, "text_similarity")
                        <=> GaveNothing(q, {"ai_semantic", "concept_based"})
                  /\ \A i \in 1..Len(q.related) :
                        q.related[i].matchType = q.tiers[Len(q.tiers)].tier

\* All three tiers ran, and the last one gave the result.
C4_Witness ==
    \E p \in Procs :
        /\ query[p].pc = "done"
        /\ TierNames(query[p]) = <<"ai_semantic", "concept_based", "text_similarity">>
        /\ Len(query[p].related) > 0

\* The concept tier gave the result and the text tier did not run.
C4_WitnessConcept ==
    \E p \in Procs :
        /\ query[p].pc = "done"
        /\ TierNames(query[p]) = <<"concept_based">>
        /\ Len(query[p].related) > 0

FindRelatedWithoutAI(graph, source, allHighlights, q, t) ==
    LET byConcepts == IF Len(source.concepts) > 0
                      THEN findRelatedByConcepts(graph, source, allHighlights,
                                                 q.minSimilarity, q.excludeIds)
                      ELSE <<>>
        related == IF Len(byConcepts) = 0
                   THEN findRelatedByTFIDF(source, allHighlights, q.minSimilarity,
                                           q.excludeIds)
                   ELSE byConcepts
    IN  RankAndTruncate(applyTemporalDecay(related, t), q.maxResults)

\* Nothing has changed the store or the clock since the start
Undisturbed == edits = 0 /\ ticks = 0 /\ batch = IdleBatch

----------------------------------------------------------------------------
(* Properties of linkConcepts (specifications SpecLink, FairSpecLink) *)

Answered(kinds) ==
    /\ link.pc = "done"
    /\ link.response # <<>>
    /\ link.response[1].kind \in kinds

LinkFailures == {"not_json", "http_error", "network_error"}

\* C7 (as specified): a linkConcepts call that waits for the endpoint completes,
\* whether or not the endpoint ever answers.
C7_LinkerCallCompletes == (link.pc = "fetch") ~> (link.pc = "done")

----------------------------------------------------------------------------
(* Properties of concurrent queries (specification SpecConc) *)

PastStalenessCheck == {"getSource", "aiRead", "aiLink", "concepts", "tfidf"}

\* C9: a query that is past its staleness check, and so one that evaluates a
\* tier, finds indexes whose last rebuild completed no more than the refresh
\* interval before the query started; a query that found them older, or never
\* built, is rebuilding them.
C9_FreshIndex ==
    \A p \in Procs :
        /\ query[p].pc \in PastStalenessCheck =>
              /\ lastIndexUpdate # 0
              /\ query[p].startedAt - lastIndexUpdate <= INDEX_REFRESH_INTERVAL
        /\ query[p].pc = "rebuild" =>
              query[p].startedAt - lastIndexUpdate > INDEX_REFRESH_INTERVAL
              \/ lastIndexUpdate >= query[p].startedAt

\* A query is about to evaluate the concept tier on indexes that are exactly
\* as old as the refresh interval: it did not rebuild them.
C9_Witness ==
    \E p \in Procs :
        /\ query[p].pc = "concepts"
        /\ query[p].startedAt - lastIndexUpdate = INDEX_REFRESH_INTERVAL

\* C10 (as specified): at most one rebuild is in flight at any time.
C10_SingleFlight ==
    Cardinality({p \in Procs : query[p].pc = "rebuild"}) <= 1

\* C11: once the indexes have been built, the vocabulary index and the
\* concept graph are at every step the complete indexes of the one store
\* snapshot that the last completed rebuild read, also while other rebuilds
\* are in flight; before the first rebuild completes both are empty and no
\* query is past its staleness check.
C11_ConsistentIndex ==
    /\ lastIndexUpdate # 0 =>
          /\ vocabularyIndex = BuildVocabularyIndex(indexedSnapshot)
          /\ conceptGraph = BuildConceptGraph(indexedSnapshot)
    /\ lastIndexUpdate = 0 =>
          /\ vocabularyIndex = <<>>
          /\ conceptGraph = <<>>
          /\ \A p \in Procs : query[p].pc \notin PastStalenessCheck

\* A query is about to evaluate the concept tier while another query's
\* rebuild is in flight, and the store is no longer the snapshot that the
\* indexes were built from.
C11_Witness ==
    \E p, q \in Procs :
        /\ query[p].pc = "rebuild"
        /\ query[q].pc = "concepts"
        /\ Len(indexedSnapshot) # Cardinality(DOMAIN store)
        /\ vocabularyIndex # <<>>

InFlight == {p \in Procs : query[p].pc \notin {"idle", "done", "failed"}}

\* C12: while batchBuildLinks runs, the number of findRelatedHighlights
\* operations in flight never exceeds batchSize; every operation in flight
\* belongs to the batch the loop is at, and none is in flight while the loop
\* reports progress, pauses, or has ended, so a batch has completed in full
\* before the next one starts.
C12_BoundedInFlight ==
    batch.pc # "idle" =>
        /\ Cardinality(InFlight) <= batch.batchSize
        /\ \A p \in InFlight :
              /\ batch.pc = "chunk"
              /\ batch.slots[p] \in ChunkAt(batch, batch.i)
              /\ query[p].sourceId = batch.unlinked[batch.slots[p]].id
        /\ batch.pc # "chunk" => \A p \in Procs : batch.slots[p] = 0

\* With batchSize 1 a second batch is being linked by one operation while
\* further fragments are still waiting for their batch.
C12_Witness ==
    /\ batch.pc = "chunk"
    /\ batch.batchSize = 1
    /\ batch.i >= 1
    /\ Cardinality(InFlight) = 1
    /\ batch.i + 1 < Len(batch.unlinked)

\* The fragments of a store with no related ids and a text of 50 characters
\* or more
EligibleIds(st) ==
    {id \in DOMAIN st : st[id].relatedHighlightIds = <<>> /\ Len(st[id].text) >= 50}

\* C13: batchBuildLinks takes up exactly the fragments that, when its store
\* read returns, have an empty related-id list and a text of at least 50
\* characters; it saves none but these; and a related-id list that is not
\* empty is never changed, so a call that follows a completed call leaves
\* every linked list as it is.
C13_OnlyUnlinked ==
    [][/\ (batch.pc = "findUnlinked" /\ batch'.pc # "findUnlinked")
            => /\ {batch'.unlinked[k].id : k \in 1..Len(batch'.unlinked)}
                     = EligibleIds(store)
               /\ \A j, k \in 1..Len(batch'.unlinked) :
                     j # k => batch'.unlinked[j].id # batch'.unlinked[k].id
       /\ \A id \in DOMAIN store' :
            (id \notin DOMAIN store \/ store'[id] # store[id])
            => \E k \in ChunkAt(batch, batch.i) : batch.unlinked[k].id = id
       /\ \A id \in DOMAIN store \cap DOMAIN store' :
            store[id].relatedHighlightIds # <<>>
            => store'[id].relatedHighlightIds = store[id].relatedHighlightIds]_vars

\* A call has ended that passed over a fragment linked and saved by the call
\* before it, and over a fragment that is too short.
C13_Witness ==
    /\ batch.pc = "done"
    /\ \E id \in DOMAIN store :
          /\ store[id].relatedHighlightIds # <<>>
          /\ store[id].updatedAt # store[id].createdAt
          /\ \A k \in 1..Len(batch.unlinked) : batch.unlinked[k].id # id
    /\ \E id \in DOMAIN store :
          /\ Len(store[id].text) < 50
          /\ store[id].relatedHighlightIds = <<>>
          /\ \A k \in 1..Len(batch.unlinked) : batch.unlinked[k].id # id

\* The number of batches that the first n fragments make up
BatchesFor(n, size) == (n + size - 1) \div size

\* C14: a fragment whose linking or whose save fails is caught by its own
\* worker; batchBuildLinks does not raise, reports progress for every batch
\* it has been over, and has ended only when every fragment it took up has
\* been either saved or caught, each in the store with its new list unless
\* its own save failed.
C14_FailuresContained ==
    /\ batch.pc \in {"idle", "findUnlinked", "chunk", "pause", "done"}
    /\ batch.saved \cap batch.caught = {}
    /\ batch.pc = "pause" =>
          /\ batch.saved \cup batch.caught
                = 1..Min(batch.i + batch.batchSize, Len(batch.unlinked))
          /\ Len(batch.progress) = BatchesFor(batch.i, batch.batchSize) + 1
    /\ batch.pc = "done" =>
          /\ batch.saved \cup batch.caught = 1..Len(batch.unlinked)
          /\ Len(batch.progress) = BatchesFor(Len(batch.unlinked), batch.batchSize)

\* A call has ended in which one fragment could not be linked, another could
\* not be saved, and a fragment of a later batch was saved all the same.
C14_Witness ==
    /\ batch.pc = "done"
    /\ \E j, k \in batch.caught, m \in batch.saved :
          /\ j < m
          /\ k < m
          /\ batch.unlinked[j].id \notin DOMAIN store
          /\ batch.unlinked[k].id \in DOMAIN store
          /\ store[batch.unlinked[m].id].relatedHighlightIds
                = batch.unlinked[m].relatedHighlightIds

\* The ids, in rank order, of a query without the semantic tier on the
\* current store, concept graph and clock
RankedIds(id, maxResults, minSimilarity) ==
    IdsOf(FindRelatedWithoutAI(conceptGraph, store[id], getAllHighlights(store),
                               [maxResults |-> maxResults,
                                minSimilarity |-> minSimilarity,
                                excludeIds |-> <<>>],
                               now))

\* A call of batchBuildLinks has ended and nothing but the call has touched
\* the store or the clock
EndedUndisturbed == batch.pc = "done" /\ edits = 0 /\ ticks = 0

\* C15 (as specified): after an undisturbed call every fragment taken up has
\* as its stored list the ranked ids of a query with useAI false, maxResults
\* 5 and minSimilarity 0.3.
C15_DefaultOptions ==
    EndedUndisturbed =>
        \A k \in 1..Len(batch.unlinked) :
            LET id == batch.unlinked[k].id
            IN  store[id].relatedHighlightIds = RankedIds(id, 5, 300)

\* C15: after an undisturbed call every fragment taken up has as its stored
\* list the ranked ids of a query with useAI false, maxResults 5 and
\* minSimilarity 0.4, the options that batchBuildLinks passes; a fragment
\* with no candidate at 0.4 has the empty list.
C15_BatchOptions ==
    EndedUndisturbed =>
        \A k \in 1..Len(batch.unlinked) :
            LET id == batch.unlinked[k].id
            IN  store[id].relatedHighlightIds = RankedIds(id, 5, 400)

\* An undisturbed call has ended: two fragments it saved list each other,
\* and a third was saved with an empty list, its best candidate being at
\* 0.3 or more but below 0.4.
C15_Witness ==
    /\ EndedUndisturbed
    /\ \E k, m \in batch.saved :
          /\ k # m
          /\ batch.unlinked[m].id \in Range(store[batch.unlinked[k].id].relatedHighlightIds)
          /\ batch.unlinked[k].id \in Range(store[batch.unlinked[m].id].relatedHighlightIds)
    /\ \E k \in batch.saved :
          LET id == batch.unlinked[k].id
          IN  /\ store[id].relatedHighlightIds = <<>>
              /\ store[id].updatedAt = now
              /\ RankedIds(id, 5, 300) # <<>>

\* C16: the progress callback has been invoked once for every batch that has
\* settled and for no other; the j-th invocation has the arguments
\* (min(j * batchSize, total), total), total being the number of fragments
\* taken up at the start; the first argument increases strictly and is total
\* on the last invocation; and when an invocation has just been made, every
\* fragment up to the end of its batch has settled, no fragment of a later
\* batch has, and no query is in flight.
C16_ProgressPerBatch ==
    LET total == Len(batch.unlinked)
        n == Len(batch.progress)
    IN  /\ \A j \in 1..n :
              batch.progress[j] = <<Min(j * batch.batchSize, total), total>>
        /\ \A j \in 1..(n - 1) : batch.progress[j][1] < batch.progress[j + 1][1]
        /\ batch.pc = "chunk" => n * batch.batchSize = batch.i
        /\ batch.pc = "pause" =>
              /\ (n - 1) * batch.batchSize = batch.i
              /\ batch.saved \cup batch.caught = 1..batch.progress[n][1]
              /\ InFlight = {}
        /\ batch.pc = "done" =>
              /\ n = BatchesFor(total, batch.batchSize)
              /\ total > 0 => batch.progress[n][1] = total

\* A call with batchSize 2 over three fragments is pausing after its second
\* and last batch, having reported (2, 3) and (3, 3).
C16_Witness ==
    /\ batch.pc = "pause"
    /\ batch.batchSize = 2
    /\ batch.progress = <<(<<2, 3>>), (<<3, 3>>)>>
    /\ batch.saved \cup batch.caught = {1, 2, 3}

\* C17 (as specified): once cancellation has been requested, batchBuildLinks
\* starts no further batch: no batch is in progress at a later loop position
\* than the one at which the request was made.
C17_NoBatchAfterCancel ==
    (batch.cancel # <<>> /\ batch.pc = "chunk") => batch.i = batch.cancel[1]

\* A stored fragment without its related-id list and its save time
OtherFields(h) == [h EXCEPT !.relatedHighlightIds = <<>>, !.updatedAt = 0]

\* C18 (as specified): a save made by batchBuildLinks changes nothing in the
\* stored fragment but its related-id list (and the time of the save): text,
\* tags, topics, concepts and the other fields are after the save what they
\* were in the store before it, also when the fragment was edited in the
\* store after the batch had read it.
C18_OnlyRelatedIdsChange ==
    [][batch'.saved # batch.saved =>
          \A id \in DOMAIN store \cap DOMAIN store' :
              OtherFields(store'[id]) = OtherFields(store[id])]_vars

\* C19 (as specified): every step that changes the provider or the API key,
\* through setProvider or through initialize, leaves the result cache empty
\* (or, in setProvider with a key, cleared by the operation's next step).
C19_CacheClearedOnChange ==
    [][<<provider', apiKey'>> # <<provider, apiKey>>
          => (cache' = <<>> \/ explain'.clearPending)]_vars

StoredVectors ==
    LET idfValues == calculateIDF(getAllHighlights(store))
    IN  [id \in DOMAIN store |-> calculateTFIDFVector(store[id].text, idfValues)]

\* C21: each pairwise similarity gives the same value whichever of the two
\* fragments is the source: the TF-IDF cosine, the weighted Jaccard similarity
\* of the local linker, and the combined concept similarity over the concept
\* graph as it is indexed.
C21_Symmetric ==
    LET vectors == StoredVectors
    IN  \A a \in DOMAIN store, b \in DOMAIN store :
            a < b =>
                /\ cosineSimilarity(vectors[a], vectors[b])
                     = cosineSimilarity(vectors[b], vectors[a])
                /\ LocalSimilarity(store[a], store[b])
                     = LocalSimilarity(store[b], store[a])
                /\ ConceptSimilarity(conceptGraph, store[a], store[b])
                     = ConceptSimilarity(conceptGraph, store[b], store[a])

\* A query has ended with a positive similarity from the concept tier for a
\* candidate with other text than the source, and the same pair taken the
\* other way round gives that same number.
C21_Witness ==
    /\ query[1].pc = "done"
    /\ \E i \in 1..Len(query[1].produced) :
          LET r == query[1].produced[i]
              source == query[1].source[1]
          IN  /\ r.matchType = "concept_based"
              /\ r.similarity > 0
              /\ r.highlight.text # source.text
              /\ r.highlight.id \in DOMAIN store
              /\ source.id \in DOMAIN store
              /\ LocalSimilarity(store[source.id], store[r.highlight.id]) > 0
              /\ ConceptSimilarity(conceptGraph, r.highlight, source) = Num(r.similarity)

\* The fragment with every concept name in lower case
LowerCased(h) ==
    [h EXCEPT !.concepts =
        [i \in 1..Len(h.concepts) |->
            [h.concepts[i] EXCEPT !.name = ToLowerCase(h.concepts[i].name)]]]

\* C22 (as specified): concept names are compared without regard to case, so
\* the concept similarity that a query over a fresh index gave for a candidate
\* is the one the same pair gets in the store where the concept names of any
\* one fragment are replaced by their lower-case variants.
C22_CaseInsensitive ==
    (/\ query[1].pc = "done"
     /\ conceptGraph = BuildConceptGraph(getAllHighlights(store)))
    => \A i \in 1..Len(query[1].produced), c \in DOMAIN store :
          LET r == query[1].produced[i]
              source == query[1].source[1]
              variant == [store EXCEPT ![c] = LowerCased(store[c])]
          IN  (/\ r.matchType = "concept_based"
               /\ source.id \in DOMAIN store
               /\ r.highlight.id \in DOMAIN store
               /\ store[source.id] = source
               /\ store[r.highlight.id] = r.highlight)
              => ConceptSimilarity(BuildConceptGraph(getAllHighlights(variant)),
                                   variant[source.id], variant[r.highlight.id])
                   = Num(r.similarity)

\* C23 (as specified): in every corpus, also one with no other fragments, a
\* stored fragment with the same text as the source of a query, the text
\* having an indexable term, is in what the text tier gives for that query,
\* with cosine similarity 1.
C23_TwinsFound ==
    (/\ query[1].pc = "done"
     /\ TierRan(query[1], "text_similarity"))
    => LET source == query[1].source[1]
       IN  \A id \in DOMAIN store :
              (/\ id # source.id
               /\ store[id].text = source.text
               /\ WordsOf(source.text) # <<>>)
              => \E i \in 1..Len(query[1].produced) :
                    /\ query[1].produced[i].highlight.id = id
                    /\ query[1].produced[i].similarity = 1000

\* The relevance that searchHighlights computes for a fragment and the query
\* of the call, at the time of the call
Relevance(h, call, t) ==
    calculateRelevanceScore(h, SplitWhitespace(ToLowerCase(call.query)), t)

\* The fragment satisfies every filter that the call supplies
Satisfies(h, filters) ==
    /\ filters.collections # <<>> =>
          Range(h.collectionIds) \cap Range(filters.collections) # {}
    /\ filters.tags # <<>> => Range(h.tags) \cap Range(filters.tags) # {}
    /\ filters.colors # <<>> => h.color \in Range(filters.colors)
    /\ filters.dateRange # <<>> =>
          /\ filters.dateRange[1].start <= h.createdAt
          /\ h.createdAt <= filters.dateRange[1].end
    /\ filters.topics # <<>> => Range(h.topics) \cap Range(filters.topics) # {}

\* C24: a search returns exactly the stored fragments whose relevance for the
\* query is above 0 and that satisfy every supplied filter (collections, tags,
\* colours, date range, topics), each of them once, in an order in which the
\* relevance never increases.
C24_SearchResult ==
    [][search' # search =>
          LET R == search'.results
              relevance == [id \in DOMAIN store |-> Relevance(store[id], search', now)]
          IN  /\ \A i \in 1..Len(R) :
                    /\ R[i].id \in DOMAIN store
                    /\ R[i] = store[R[i].id]
                    /\ relevance[R[i].id] > 0
                    /\ Satisfies(R[i], search'.filters)
              /\ \A id \in DOMAIN store :
                    (relevance[id] > 0 /\ Satisfies(store[id], search'.filters))
                    => \E i \in 1..Len(R) : R[i].id = id
              /\ \A i, j \in 1..Len(R) :
                    i < j => /\ R[i].id # R[j].id
                             /\ relevance[R[i].id] >= relevance[R[j].id]]_vars

\* A search with a filter has returned two fragments of different
\* relevance, while the store holds a fragment with positive relevance that
\* the filter keeps out and a fragment whose relevance is 0.
C24_Witness ==
    /\ search.pc = "done"
    /\ search.filters # NoFilters
    /\ Len(search.results) >= 2
    /\ \A i \in 1..Len(search.results) : search.results[i].id \in DOMAIN store
    /\ Relevance(search.results[1], search, now)
         > Relevance(search.results[Len(search.results)], search, now)
    /\ \E id \in DOMAIN store :
          /\ Relevance(store[id], search, now) > 0
          /\ ~Satisfies(store[id], search.filters)
    /\ \E id \in DOMAIN store : Relevance(store[id], search, now) = 0

\* C25 (as specified): when a query ends, a candidate that is thirty days old
\* or older has in the result the similarity its tier gave it, and a younger
\* one, of age a, has min(1, s + (1 - a / 30 days) * 0.1), in thousandths.
C25_BoostOnlyWhenRecent ==
    [][(query[1].pc # "done" /\ query'[1].pc = "done") =>
          \A i \in 1..Len(query'[1].related), j \in 1..Len(query'[1].produced) :
              LET r == query'[1].related[i]
                  s == query'[1].produced[j].similarity
                  age == now - r.highlight.createdAt
              IN  query'[1].produced[j].highlight.id = r.highlight.id =>
                     r.similarity =
                        IF age >= ThirtyDays THEN s
                        ELSE Min(1000, s + ((ThirtyDays - age) * 100) \div ThirtyDays)]_vars

\* C26 (as specified): the category-weighted similarity of every pair is a
\* number from 0 to 1, so the combined similarity can always be compared with
\* minSimilarity: a query with minSimilarity 0 gets from the concept tier every
\* stored candidate that has concepts.
C26_AlwaysComparable ==
    (query[1].pc = "done" /\ query[1].minSimilarity = 0)
    => \A i \in 1..Len(query[1].tiers) :
          query[1].tiers[i].tier = "concept_based"
          => query[1].tiers[i].count >=
                Cardinality({id \in DOMAIN store \ {query[1].sourceId} :
                                store[id].concepts # <<>>})

\* C27 (as specified): a call of batchBuildLinks comes to its end for every
\* batch size, 0 included: each time its pause is over, the loop is at a
\* position further on in the list than the one before, so that it is past the
\* end of the list after finitely many passes.
C27_LoopAdvances ==
    [][(batch.pc = "pause" /\ batch'.pc # "pause") => batch'.i > batch.i]_vars

\* C28 (as specified): a save made by batchBuildLinks creates no fragment: a
\* fragment that another actor deleted while the batch ran is not in the store
\* again after the save.
C28_NoResurrection ==
    [][batch'.saved # batch.saved => DOMAIN store' \subseteq DOMAIN store]_vars

\* C29: a rebuild that ends because the store read failed leaves the
\* vocabulary index, the concept graph and the time of the last rebuild as
\* they were, the index still counts as stale, and a query started in that
\* state begins with a rebuild.
C29_FailedRebuildKeepsIndex ==
    [][/\ (query[1].pc = "rebuild" /\ query'[1].pc = "failed")
            => /\ vocabularyIndex' = vocabularyIndex
               /\ conceptGraph' = conceptGraph
               /\ lastIndexUpdate' = lastIndexUpdate
               /\ IndexIsStale(now', lastIndexUpdate')
       /\ (query[1].pc = "failed" /\ query[1].error = ReadFailed
             /\ query'[1].pc \notin {"failed", "idle"})
            => query'[1].pc = "rebuild"]_vars

\* A query has failed on the store read of its rebuild while the indexes of
\* an earlier rebuild, no longer fresh, are in place.
C29_Witness ==
    /\ query[1].pc = "failed"
    /\ query[1].error = ReadFailed
    /\ vocabularyIndex # <<>>
    /\ conceptGraph # <<>>
    /\ lastIndexUpdate > 0
    /\ IndexIsStale(now, lastIndexUpdate)

\* C30 (as specified): what explainText returns from the cache was computed
\* by a successful call for the same request: the content returned for a text
\* is a content produced for that text, never one produced for another.
C30_OwnEntryOnly ==
    (explain.pc = "done" /\ Len(explain.result) = 3)
    => explain.result[1] = explain.text

=============================================================================
